---- MODULE Spec2Model ----
(***************************************************************************)
(* A model of the retrieval layer of connector-userid-ts: the query        *)
(* operations of DataAccess (getFirstDp, getDp, dataQuery/_influxdb,       *)
(* getLoadEntities) and of EventsHandler (getDetailedEvent,                *)
(* getEventsInTimeslot, getEventDataCount, getEventCategories,             *)
(* publishEvent).                                                          *)
(*                                                                         *)
(* One invocation of one operation runs at a time.  Every action is the    *)
(* code that runs between two awaits: it starts with the arrival of the    *)
(* awaited response (drawn from the answers a server can give) and ends    *)
(* when the next request is handed to axios, when _sleep is entered, or    *)
(* when the operation returns or raises.  pc names the await the           *)
(* invocation is suspended at.                                             *)
(***************************************************************************)
EXTENDS Integers, Sequences, FiniteSets, TLC

(***************************************************************************)
(* Bounds of the model.                                                    *)
(***************************************************************************)
\* records the server hands out during one invocation
MaxData == 2
\* records in one page
MaxPageLen == 1
\* successful pages of one loop that are counted (the count saturates here)
MaxPages == 3
\* pages a listing endpoint can be asked for before it must report its total reached
MaxListPages == 3

(***************************************************************************)
(* Program constants.                                                      *)
(***************************************************************************)
MAX_RETRIES == 15
MAX_RETRIES_INFLUX == 8
RETRY_DELAY == <<2, 4>>
RETRY_DELAY_INFLUX == <<2000, 10000>>

(***************************************************************************)
(* Numbers.  Epoch values have 13 decimal digits and do not fit a TLC      *)
(* integer, so a number is the sequence of its decimal digits, most        *)
(* significant first, without leading zeros; <<>> is an absent field       *)
(* (undefined).                                                            *)
(***************************************************************************)
Undef == <<>>

Zero == <<0>>

\* JavaScript truthiness of a number-or-undefined
Truthy(x) == \E i \in 1..Len(x) : x[i] # 0

\* String(x).length for a non-negative integer: its decimal digits below 10^21,
\* and from there on the exponent form d.ddde+NN of its significant digits
StrLen(x) ==
  LET significant == CHOOSE k \in 1..Len(x) : x[k] # 0 /\ \A j \in (k + 1)..Len(x) : x[j] = 0
  IN IF Len(x) <= 21 THEN Len(x)
     ELSE IF significant = 1 THEN 5 ELSE significant + 5

\* x < y for non-negative integers
RECURSIVE LexLess(_, _)
LexLess(x, y) ==
  IF x = <<>> THEN FALSE
  ELSE IF Head(x) # Head(y) THEN Head(x) < Head(y)
  ELSE LexLess(Tail(x), Tail(y))

Less(x, y) == Len(x) < Len(y) \/ (Len(x) = Len(y) /\ LexLess(x, y))

\* Math.floor(x / 1000)
FloorDiv1000(x) == IF Len(x) > 3 THEN SubSeq(x, 1, Len(x) - 3) ELSE Zero

\* 1717180320000, 1717180321000: epoch milliseconds
TimeA == <<1, 7, 1, 7, 1, 8, 0, 3, 2, 0, 0, 0, 0>>

TimeB == <<1, 7, 1, 7, 1, 8, 0, 3, 2, 1, 0, 0, 0>>

\* 1717180320: the same instant in epoch seconds
TimeSecs == <<1, 7, 1, 7, 1, 8, 0, 3, 2, 0>>

\* new Date().getTime() during the invocation
NowMs == <<1, 7, 6, 2, 0, 4, 1, 6, 0, 0, 0, 0, 0>>

(***************************************************************************)
(* Time inputs: null, a number (TimeNeg(v) is -v), or a string or a Date    *)
(* (given by what getTime() yields for it, Undef standing for NaN).        *)
(***************************************************************************)
TimeNull == [kind |-> "null", val |-> Undef]

TimeNum(v) == [kind |-> "num", val |-> v]

TimeStr(v) == [kind |-> "str", val |-> v]

TimeNeg(v) == [kind |-> "neg", val |-> v]

TimeDate(v) == [kind |-> "date", val |-> v]

TimeInputs ==
  {TimeNull, TimeNum(TimeA), TimeNum(TimeB), TimeNum(TimeSecs), TimeNum(Zero),
   TimeStr(TimeA), TimeStr(Undef)}

\* DataAccess.timeToUnix: the epoch milliseconds, or a thrown Error
Thrown == [ok |-> FALSE, val |-> Undef]

Value(v) == [ok |-> TRUE, val |-> v]

\* a variant of timeToUnix that takes a number of 10 digits
timeToUnix_TenDigits(time) ==
  IF time.kind = "null" THEN Value(NowMs)
  ELSE IF time.kind = "neg" THEN Thrown
  ELSE IF time.kind = "num"
  THEN IF ~Truthy(time.val) \/ StrLen(time.val) < 10 THEN Thrown ELSE Value(time.val)
  ELSE IF time.kind = "date" THEN Value(time.val)
  ELSE IF time.val = Undef THEN Thrown ELSE Value(time.val)

timeToUnix(time) ==
  IF time.kind = "null" THEN Value(NowMs)
  ELSE IF time.kind = "neg" THEN Thrown
  ELSE IF time.kind = "num"
  THEN IF ~Truthy(time.val) \/ StrLen(time.val) <= 10 THEN Thrown ELSE Value(time.val)
  ELSE IF time.kind = "date" THEN Value(time.val)
  ELSE IF time.val = Undef THEN Thrown ELSE Value(time.val)

(***************************************************************************)
(* Cursors as the server sends them: null, no cursor field, or an object    *)
(* whose fields may be absent.                                             *)
(***************************************************************************)
CurNull == [tag |-> "null", start |-> Undef, end |-> Undef, limit |-> 0]

CurUndef == [tag |-> "undef", start |-> Undef, end |-> Undef, limit |-> 0]

Cur(s, e, l) == [tag |-> "obj", start |-> s, end |-> e, limit |-> l]

\* two window bounds the server hands back
Next1 == <<5>>

Next2 == <<6>>

\* the optional sensorList / clusters / tag-list arguments
NotGiven == [given |-> FALSE, list |-> <<>>]

Given(l) == [given |-> TRUE, list |-> l]

(***************************************************************************)
(* State.                                                                  *)
(***************************************************************************)
VARIABLES
  op,        \* the operation invoked
  args,      \* its options
  pc,        \* "call", the await the invocation is suspended at, or "done"
  loc,       \* the local variables of the invocation
  inflight,  \* the request (or sleep) being awaited
  ret,       \* what the operation gave its caller: a value or a raised error
  caught,    \* the error that reached the operation's outer catch block
  obs,       \* what the server saw of the current fetch loop
  net,       \* requests issued so far, per endpoint (counted up to 2)
  clean,     \* the options getCleanedTable was called with, if it was
  other      \* a second invocation, suspended at an await, if there is one

vars == <<op, args, pc, loc, inflight, ret, caught, obs, net, clean, other>>

ReqKinds == {"devices", "metadata", "data", "entities", "categories", "events", "post"}

NoRet == [kind |-> "none", cleaned |-> FALSE, rows |-> <<>>]

\* the empty result []
Empty == [kind |-> "value", cleaned |-> FALSE, rows |-> <<>>]

\* a rejected promise
Raise == [kind |-> "raise", cleaned |-> FALSE, rows |-> <<>>]

\* the rows a successful call returns; cleaned: they went through getCleanedTable
Rows(r, c) == [kind |-> "value", cleaned |-> c, rows |-> r]

\* the records k+1 .. k+d: the server numbers the records it sends
Tokens(k, d) == [j \in 1..d |-> k + j]

\* the request that is not there
NoReq == [kind |-> "none"]

\* what the server has seen of one fetch loop: the requests that failed, the pages
\* that were accepted (counted up to MaxPages), the records sent so far in accepted
\* pages, and of the latest answer: its kind, the request it answered, its cursor
\* and total, and the retry count it met
NewLoop(served) ==
  [fails |-> 0, pages |-> 0, served |-> served, base |-> served, last |-> "none",
   req |-> NoReq, lastCur |-> CurUndef, total |-> 0, retryWas |-> 0]

\* the loop that follows the loop seen as o
NextLoop(o) == NewLoop(o.served)

Sent(n, kind) == [n EXCEPT ![kind] = IF @ < 2 THEN @ + 1 ELSE @]

Counted(k) == IF k < MaxPages THEN k + 1 ELSE k

\* a failed request: a catch block was entered (counted up to MAX_RETRIES + 1)
ObsFail(o) == [o EXCEPT !.fails = IF @ <= MAX_RETRIES THEN @ + 1 ELSE @]

\* a page that was accepted, with d records
ObsPage(o, d) == [o EXCEPT !.pages = Counted(@), !.served = @ + d]

(***************************************************************************)
(* The ways an action ends.                                                *)
(***************************************************************************)
\* the request req is handed to axios and awaited
Await(p, l, req, o) ==
  /\ pc' = p
  /\ loc' = l
  /\ inflight' = req
  /\ obs' = o
  /\ net' = Sent(net, req.kind)
  /\ UNCHANGED <<op, args, ret, caught, clean, other>>

\* await this._sleep(ms)
Sleep(l, o, ms) ==
  /\ pc' = "await_sleep"
  /\ loc' = l
  /\ inflight' = [kind |-> "sleep", ms |-> ms]
  /\ obs' = o
  /\ UNCHANGED <<op, args, ret, caught, net, clean, other>>

\* the operation ends with r (e: the error its catch block saw, or "none")
Ended(r, e, l, o) ==
  /\ pc' = "done"
  /\ loc' = l
  /\ inflight' = NoReq
  /\ ret' = r
  /\ caught' = e
  /\ obs' = o
  /\ UNCHANGED <<op, args, net, other>>

\* the operation returns r, or its catch block does, without a call of
\* getCleanedTable
Done(r, e, l, o) == Ended(r, e, l, o) /\ UNCHANGED clean

\* there is no second invocation
NoOther == [op |-> "none"]

\* getCleanedTable was not called
NoClean ==
  [called |-> FALSE, cal |-> FALSE, alias |-> FALSE, metadata |-> FALSE, pivotTable |-> FALSE]

\* the caller's cal and alias: both left at false, or both true as in the README
CleanOptions == {[cal |-> FALSE, alias |-> FALSE], [cal |-> TRUE, alias |-> TRUE]}

\* 387: if (cal && metadata)
getCleanedTable_Calibrates(cal, metadata) == cal /\ metadata

\* 447: if (alias && metadata)
getCleanedTable_Aliases(alias, metadata) == alias /\ metadata

\* the catch blocks at the boundary of each operation: all query operations log
\* and return [] (or {}), publishEvent logs and rethrows
\* the variant of 771-774 that rethrows
getFirstDp_Catch_Rethrow == Raise

getFirstDp_Catch == Empty

getDp_Catch == Empty

dataQuery_Catch == Empty

\* the variant of 1091-1094 that returns what was accumulated
influxdb_Catch_Partial == Rows(loc.allData, FALSE)

influxdb_Catch == Empty

getLoadEntities_Catch == Empty

getDetailedEvent_Catch == Empty

getEventsInTimeslot_Catch == Empty

getEventDataCount_Catch == Empty

getEventCategories_Catch == Empty

\* the variant of 237-247 that swallows the error like a query operation
publishEvent_Catch_Swallow == Empty

publishEvent_Catch == Raise

CatchOf(site) ==
  CASE site = "getFirstDp" -> getFirstDp_Catch
    [] site = "getDp" -> getDp_Catch
    [] site = "dataQuery" -> dataQuery_Catch
    [] site = "_influxdb" -> influxdb_Catch
    [] site = "getLoadEntities" -> getLoadEntities_Catch
    [] site = "getDetailedEvent" -> getDetailedEvent_Catch
    [] site = "getEventsInTimeslot" -> getEventsInTimeslot_Catch
    [] site = "getEventDataCount" -> getEventDataCount_Catch
    [] site = "getEventCategories" -> getEventCategories_Catch
    [] site = "publishEvent" -> publishEvent_Catch

(***************************************************************************)
(* The server's answers.                                                   *)
(***************************************************************************)
\* getDeviceDetails: {} on any failure, else the list, with or without the device
DeviceAnswers == {"failed", "absent", "present"}

\* getDeviceMetaData: {} on any failure, else the metadata
MetadataAnswers ==
  {[ok |-> FALSE, sensors |-> <<>>], [ok |-> TRUE, sensors |-> <<>>],
   [ok |-> TRUE, sensors |-> <<"s1">>], [ok |-> TRUE, sensors |-> <<"s1", "s2">>]}

\* an answer to a page request: axios rejects (neterr), or a body arrives that
\* carries the server's error flag or not (flag: truthy success for getDp and
\* _influxdb, truthy error for getLoadEntities, success === false for
\* getDetailedEvent), a data array of n records or none, a total and a cursor
Answer(k, flag, has, d, t, c) ==
  [kind |-> k, flag |-> flag, hasData |-> has, n |-> d, total |-> t, cursor |-> c]

NetErr == Answer("neterr", FALSE, FALSE, 0, 0, CurNull)

Flagged == Answer("body", TRUE, FALSE, 0, 0, CurNull)

Body(d, c) == Answer("body", FALSE, TRUE, d, 0, c)

Listing(has, d, t) == Answer("body", FALSE, has, d, t, CurNull)

\* the kind of an answer, as the server means it
AnswerKind(resp) ==
  IF resp.kind = "neterr" THEN "neterr"
  ELSE IF resp.flag THEN "flag"
  ELSE IF ~resp.hasData THEN "malformed"
  ELSE "ok"

\* the answer resp to the awaited request arrives
Seen(o, resp) ==
  [o EXCEPT !.last = AnswerKind(resp), !.req = inflight, !.lastCur = resp.cursor,
            !.total = resp.total, !.retryWas = loc.retry]

\* cleaning throws on some data (a row time timeToUnix rejects, a params entry
\* that is not a list), so whether it does is the server's choice
CleanOutcomes == {"cleaned", "throws"}

(***************************************************************************)
(* What a handler decides: the handlers below are functions of the locals, *)
(* the observations and the answer; Apply turns the decision into a step.  *)
(***************************************************************************)
ToAwait(p, l, req, o) == [kind |-> "await", pc |-> p, l |-> l, req |-> req, o |-> o]

ToSleep(l, o, ms) == [kind |-> "sleep", l |-> l, o |-> o, ms |-> ms]

ToReturn(r, l, o) == [kind |-> "return", r |-> r, l |-> l, o |-> o]

\* an error thrown to the catch block of site (an operation, or _influxdb)
ToThrowAt(site, e, l, o) == [kind |-> "throw", site |-> site, e |-> e, l |-> l, o |-> o]

ToThrow(e, l, o) == ToThrowAt(op, e, l, o)

\* return this.getCleanedTable({data: rows, alias, cal, metadata, ...}) with the
\* caller's cal and alias and the metadata the operation holds, if it holds any;
\* pivotTable is false in getFirstDp and getDp and left to its default, true, in
\* _influxdb
ToClean(rows, l, o) == [kind |-> "clean", rows |-> rows, l |-> l, o |-> o]

Apply(x) ==
  CASE x.kind = "await" -> Await(x.pc, x.l, x.req, x.o)
    [] x.kind = "sleep" -> Sleep(x.l, x.o, x.ms)
    [] x.kind = "return" -> Done(x.r, "none", x.l, x.o)
    [] x.kind = "throw" -> Done(CatchOf(x.site), x.e, x.l, x.o)
    [] x.kind = "clean" ->
         \E c \in CleanOutcomes, o \in CleanOptions :
           /\ clean' = [called |-> TRUE, cal |-> o.cal, alias |-> o.alias,
                        metadata |-> x.l.metadata, pivotTable |-> x.l.site = "_influxdb"]
           /\ IF c = "cleaned" THEN Ended(Rows(x.rows, TRUE), "none", x.l, x.o)
              ELSE Ended(CatchOf(x.l.site), "CleanError", x.l, x.o)

(***************************************************************************)
(* DataAccess.getDp                                                        *)
(***************************************************************************)
getDp_Args ==
  [n : {0, 1},
   endTime : {TimeNum(TimeA), TimeNum(TimeSecs), TimeStr(Undef)},
   sensorList : {NotGiven, Given(<<>>), Given(<<"s1", "s2">>)}]

getDp_Locals ==
  [site |-> "getDp", devices |-> "none", sensors |-> <<>>, metadata |-> FALSE,
   unixEnd |-> Undef, i |-> 0, cursor |-> CurUndef, retry |-> 0, allData |-> <<>>]

\* the variant of 857-862 without the throw at 860-862
getDp_Rejected_NetOnly(resp) == resp.kind = "neterr"

\* 857-862: axios rejects, or the body carries a truthy success
getDp_Rejected(resp) == resp.kind = "neterr" \/ resp.flag

\* the variant of 873 that does not count the failure
getDp_Failed_NoCount(l) == l

\* the variant of 873 that also drops the records collected
getDp_Failed_Restart(l) == [l EXCEPT !.retry = @ + 1, !.allData = <<>>]

\* 873: retry++
getDp_Failed(l) == [l EXCEPT !.retry = @ + 1]

\* the variant of 876 that compares with >
getDp_Exhausted_Late(retry) == retry > MAX_RETRIES

\* 876
getDp_Exhausted(retry) == retry >= MAX_RETRIES

\* 880
getDp_waitTime(retry) == IF retry > 5 THEN RETRY_DELAY[2] ELSE RETRY_DELAY[1]

\* the variant of 849-857 that always asks for the first sensor
getDp_Request_FirstSensor(l) ==
  [kind |-> "data", sensor |-> l.sensors[1], sTime |-> Undef,
   eTime |-> l.cursor.end, lim |-> l.cursor.limit]

\* 849-857: the request of one loop iteration
getDp_Request(l) ==
  [kind |-> "data", sensor |-> l.sensors[l.i], sTime |-> Undef,
   eTime |-> l.cursor.end, lim |-> l.cursor.limit]

\* 886-902
getDp_Return(l, o) ==
  IF Len(l.allData) > 0 THEN ToClean(l.allData, l, o) ELSE ToReturn(Empty, l, o)

RECURSIVE getDp_For(_, _), getDp_While(_, _)

\* the variant of 843-845 that declares retry outside the for loop
getDp_For_SharedRetry(l, o) ==
  IF l.i < Len(l.sensors)
  THEN getDp_While([l EXCEPT !.i = @ + 1, !.cursor = Cur(Undef, l.unixEnd, args.n)],
                   NextLoop(o))
  ELSE getDp_Return(l, o)

\* 843-845: the next sensor of the list, with a fresh cursor and retry count
getDp_For(l, o) ==
  IF l.i < Len(l.sensors)
  THEN getDp_While([l EXCEPT !.i = @ + 1, !.cursor = Cur(Undef, l.unixEnd, args.n),
                             !.retry = 0],
                   NextLoop(o))
  ELSE getDp_Return(l, o)

\* 847: while (cursor.end); reading .end of null or undefined throws a TypeError
\* outside the inner try
getDp_While(l, o) ==
  IF l.cursor.tag # "obj" THEN ToThrow("TypeError", l, o)
  ELSE IF Truthy(l.cursor.end) THEN ToAwait("await_dp", l, getDp_Request(l), o)
  ELSE getDp_For(l, o)

\* 839-841
getDp_Walk(l, o) ==
  LET t == timeToUnix(args.endTime)
  IN IF ~t.ok THEN ToThrow("Validation", l, o)
     ELSE getDp_For([l EXCEPT !.unixEnd = FloorDiv1000(t.val), !.allData = <<>>, !.i = 0], o)

\* 859-882: one answer to the request of a loop iteration
getDp_OnResponse(l, o, resp) ==
  IF getDp_Rejected(resp)
  THEN LET l2 == getDp_Failed(l)
           o2 == ObsFail(o)
       IN IF getDp_Exhausted(l2.retry) THEN ToThrow("MaxRetries", l2, o2)
          ELSE ToSleep(l2, o2, getDp_waitTime(l2.retry))
  ELSE getDp_While([l EXCEPT !.allData = @ \o Tokens(o.served, resp.n),
                             !.cursor = resp.cursor],
                   ObsPage(o, resp.n))

\* the answers to a getDp page request
getDp_Answers ==
  {NetErr, Flagged}
    \cup {Body(d, c) :
            d \in {k \in 0..MaxPageLen : obs.served + k <= MaxData},
            c \in {CurNull, CurUndef, Cur(Undef, Undef, 0), Cur(Undef, Zero, 1),
                   Cur(Undef, Next1, 1), Cur(Undef, Next2, 1)}}

\* 807-815: n is checked, the device list is asked for
getDp_Call ==
  /\ op = "getDp" /\ pc = "call"
  /\ IF args.n < 1 THEN Apply(ToThrow("Validation", getDp_Locals, obs))
     ELSE Apply(ToAwait("await_devices", getDp_Locals, [kind |-> "devices"], obs))

\* 815-828
getDp_Devices ==
  /\ op = "getDp" /\ pc = "await_devices"
  /\ \E a \in DeviceAnswers :
       LET l == [loc EXCEPT !.devices = a]
       IN IF a = "failed" THEN Apply(ToThrow("DeviceFetch", l, obs))
          ELSE IF a = "absent" THEN Apply(ToThrow("NotFound", l, obs))
          ELSE IF ~args.sensorList.given
          THEN Apply(ToAwait("await_metadata", l, [kind |-> "metadata"], obs))
          ELSE Apply(getDp_Walk([l EXCEPT !.sensors = args.sensorList.list], obs))

\* 828-847
getDp_Metadata ==
  /\ op = "getDp" /\ pc = "await_metadata"
  /\ \E m \in MetadataAnswers :
       IF ~m.ok THEN Apply(ToThrow("MetadataFetch", loc, obs))
       ELSE IF Len(m.sensors) = 0 THEN Apply(ToThrow("NoSensors", loc, obs))
       ELSE Apply(getDp_Walk([loc EXCEPT !.sensors = m.sensors, !.metadata = TRUE], obs))

\* 857-883
getDp_Data ==
  /\ op = "getDp" /\ pc = "await_dp"
  /\ \E resp \in getDp_Answers : Apply(getDp_OnResponse(loc, Seen(obs, resp), resp))

\* 881 -> 847: the sleep is over, the while condition is read again
getDp_Wake ==
  /\ op = "getDp" /\ pc = "await_sleep"
  /\ Apply(getDp_While(loc, obs))

(***************************************************************************)
(* DataAccess.getFirstDp                                                   *)
(***************************************************************************)
getFirstDp_Args ==
  [n : {0, 1},
   startTime : {TimeNull, TimeNum(TimeA), TimeNum(TimeSecs), TimeStr(Undef)},
   sensorList : {NotGiven, Given(<<>>), Given(<<"s1">>)}]

getFirstDp_Locals ==
  [site |-> "getFirstDp", devices |-> "none", sensors |-> <<>>, metadata |-> FALSE,
   retry |-> 0]

\* 742-749: the start time is converted, the single request is issued; its
\* parameters are device, sensor and time, and lim = 0 says that it has no limit
getFirstDp_Fetch(l, o) ==
  LET t == timeToUnix(args.startTime)
  IN IF ~t.ok THEN ToThrow("Validation", l, o)
     ELSE ToAwait("await_first", l,
                  [kind |-> "data", sensor |-> l.sensors, sTime |-> FloorDiv1000(t.val),
                   eTime |-> Undef, lim |-> 0],
                  o)

\* 751-769
getFirstDp_OnResponse(l, o, resp) ==
  IF resp.kind = "neterr" THEN ToThrow("Request", l, ObsFail(o))
  ELSE IF resp.flag THEN ToThrow("ServerError", l, ObsFail(o))
  ELSE IF resp.n > 0 THEN ToClean(Tokens(o.served, resp.n), l, ObsPage(o, resp.n))
  ELSE ToReturn(Empty, l, ObsPage(o, 0))

getFirstDp_Answers == {NetErr, Flagged} \cup {Body(d, CurNull) : d \in 0..MaxData}

\* 710-718
getFirstDp_Call ==
  /\ op = "getFirstDp" /\ pc = "call"
  /\ IF args.n < 1 THEN Apply(ToThrow("Validation", getFirstDp_Locals, obs))
     ELSE Apply(ToAwait("await_devices", getFirstDp_Locals, [kind |-> "devices"], obs))

\* the variant of 718-732 without the test of 721
getFirstDp_Devices_Unverified ==
  /\ op = "getFirstDp" /\ pc = "await_devices"
  /\ \E a \in DeviceAnswers :
       LET l == [loc EXCEPT !.devices = a]
       IN IF a = "failed" THEN Apply(ToThrow("DeviceFetch", l, obs))
          ELSE IF ~args.sensorList.given
          THEN Apply(ToAwait("await_metadata", l, [kind |-> "metadata"], obs))
          ELSE Apply(getFirstDp_Fetch([l EXCEPT !.sensors = args.sensorList.list], obs))

\* 718-732: devices holds the answer of getDeviceDetails
getFirstDp_Devices ==
  /\ op = "getFirstDp" /\ pc = "await_devices"
  /\ \E a \in DeviceAnswers :
       LET l == [loc EXCEPT !.devices = a]
       IN IF a = "failed" THEN Apply(ToThrow("DeviceFetch", l, obs))
          ELSE IF a = "absent" THEN Apply(ToThrow("NotFound", l, obs))
          ELSE IF ~args.sensorList.given
          THEN Apply(ToAwait("await_metadata", l, [kind |-> "metadata"], obs))
          ELSE Apply(getFirstDp_Fetch([l EXCEPT !.sensors = args.sensorList.list], obs))

\* 732-749
getFirstDp_Metadata ==
  /\ op = "getFirstDp" /\ pc = "await_metadata"
  /\ \E m \in MetadataAnswers :
       IF ~m.ok THEN Apply(ToThrow("MetadataFetch", loc, obs))
       ELSE IF Len(m.sensors) = 0 THEN Apply(ToThrow("NoSensors", loc, obs))
       ELSE Apply(getFirstDp_Fetch([loc EXCEPT !.sensors = m.sensors, !.metadata = TRUE],
                                   obs))

\* 749-774
getFirstDp_Data ==
  /\ op = "getFirstDp" /\ pc = "await_first"
  /\ \E resp \in getFirstDp_Answers :
       Apply(getFirstDp_OnResponse(loc, Seen(obs, resp), resp))

(***************************************************************************)
(* DataAccess.dataQuery and DataAccess._influxdb                           *)
(***************************************************************************)
dataQuery_Args ==
  [startTime : {TimeNum(TimeB), TimeNum(TimeSecs), TimeStr(Undef)},
   endTime : TimeInputs,
   sensorList : {NotGiven, Given(<<>>), Given(<<"s1">>)}]

dataQuery_Locals ==
  [site |-> "dataQuery", devices |-> "none", sensors |-> <<>>, metadata |-> FALSE,
   startUnix |-> Undef,
   endUnix |-> Undef, cursor |-> CurUndef, retry |-> 0, allData |-> <<>>]

\* 1056: axios rejects, or the body carries a truthy success
influxdb_Rejected(resp) == resp.kind = "neterr" \/ resp.flag

\* 1066
influxdb_MayRetry(retry) == retry < MAX_RETRIES_INFLUX

\* 1067
influxdb_delay(retry) == IF retry > 5 THEN RETRY_DELAY_INFLUX[2] ELSE RETRY_DELAY_INFLUX[1]

\* 1042-1052
influxdb_Request(l) ==
  [kind |-> "data", sensor |-> l.sensors, sTime |-> l.cursor.start,
   eTime |-> l.cursor.end, lim |-> 1000]

\* 1075-1089
influxdb_Return(l, o) ==
  IF Len(l.allData) > 0 THEN ToClean(l.allData, l, o) ELSE ToReturn(Empty, l, o)

\* 1040: while (cursor?.start && cursor?.end)
influxdb_Continues(cursor) ==
  cursor.tag = "obj" /\ Truthy(cursor.start) /\ Truthy(cursor.end)

influxdb_While(l, o) ==
  IF influxdb_Continues(l.cursor) THEN ToAwait("await_influx", l, influxdb_Request(l), o)
  ELSE influxdb_Return(l, o)

\* the variant of 1058-1059 that keeps the cursor it had
influxdb_Accept_SameCursor(l, o, resp) ==
  [l EXCEPT !.allData = @ \o Tokens(o.served, resp.n)]

\* 1058-1059: the page is appended, the cursor replaced
influxdb_Accept(l, o, resp) ==
  [l EXCEPT !.allData = @ \o Tokens(o.served, resp.n), !.cursor = resp.cursor]

\* 1033-1040
influxdb_Loop(l, o) ==
  influxdb_While([l EXCEPT !.cursor = Cur(l.startUnix, l.endUnix, 0), !.allData = <<>>,
                           !.retry = 0],
                 NewLoop(o.served))

\* the variant of 1010-1031 that fetches the metadata whatever it was handed
influxdb_Enter_Refetch(l0, o) ==
  ToAwait("await_metadata2", [l0 EXCEPT !.site = "_influxdb"], [kind |-> "metadata"], o)

\* 1010-1031: _influxdb resolves the sensor list again when it is empty
influxdb_Enter(l0, o) ==
  LET l == [l0 EXCEPT !.site = "_influxdb"]
  IN IF Len(l.sensors) = 0
     THEN IF ~l.metadata THEN ToAwait("await_metadata2", l, [kind |-> "metadata"], o)
          ELSE ToThrowAt("_influxdb", "NoSensors", l, o)
     ELSE influxdb_Loop(l, o)

\* 1055-1072
influxdb_OnResponse(l, o, resp) ==
  IF influxdb_Rejected(resp)
  THEN LET l2 == [l EXCEPT !.retry = @ + 1]
           o2 == ObsFail(o)
       IN IF influxdb_MayRetry(l2.retry) THEN ToSleep(l2, o2, influxdb_delay(l2.retry))
          ELSE ToThrowAt("_influxdb", "MaxRetries", l2, o2)
  ELSE influxdb_While(influxdb_Accept(l, o, resp), ObsPage(o, resp.n))

influxdb_Answers ==
  {NetErr, Flagged}
    \cup {Body(d, c) :
            d \in {k \in 0..MaxPageLen : obs.served + k <= MaxData},
            c \in {CurNull, CurUndef, Cur(Next1, Undef, 0), Cur(Zero, Next1, 0),
                   Cur(Next1, Next1, 0), Cur(Next2, Next2, 0)}}

\* 939-948
dataQuery_Call ==
  /\ op = "dataQuery" /\ pc = "call"
  /\ LET s == timeToUnix(args.startTime)
         e == timeToUnix(args.endTime)
         l == [dataQuery_Locals EXCEPT !.startUnix = s.val, !.endUnix = e.val]
     IN IF ~s.ok \/ ~e.ok THEN Apply(ToThrow("Validation", dataQuery_Locals, obs))
        ELSE IF Less(e.val, s.val) THEN Apply(ToThrow("Validation", l, obs))
        ELSE Apply(ToAwait("await_devices", l, [kind |-> "devices"], obs))

\* 948-980
dataQuery_Devices ==
  /\ op = "dataQuery" /\ pc = "await_devices"
  /\ \E a \in DeviceAnswers :
       LET l == [loc EXCEPT !.devices = a]
       IN IF a = "failed" THEN Apply(ToThrow("DeviceFetch", l, obs))
          ELSE IF a = "absent" THEN Apply(ToThrow("NotFound", l, obs))
          ELSE IF ~args.sensorList.given
          THEN Apply(ToAwait("await_metadata", l, [kind |-> "metadata"], obs))
          ELSE Apply(influxdb_Enter([l EXCEPT !.sensors = args.sensorList.list], obs))

\* 960-980
dataQuery_Metadata ==
  /\ op = "dataQuery" /\ pc = "await_metadata"
  /\ \E m \in MetadataAnswers :
       IF ~m.ok THEN Apply(ToThrow("MetadataFetch", loc, obs))
       ELSE IF Len(m.sensors) = 0 THEN Apply(ToThrow("NoSensors", loc, obs))
       ELSE Apply(influxdb_Enter([loc EXCEPT !.sensors = m.sensors, !.metadata = TRUE], obs))

\* 1020-1040
influxdb_Metadata ==
  /\ op = "dataQuery" /\ pc = "await_metadata2"
  /\ \E m \in MetadataAnswers :
       IF ~m.ok THEN Apply(ToThrowAt("_influxdb", "MetadataFetch", loc, obs))
       ELSE IF Len(m.sensors) = 0 THEN Apply(ToThrowAt("_influxdb", "NoSensors", loc, obs))
       ELSE Apply(influxdb_Loop([loc EXCEPT !.sensors = m.sensors, !.metadata = TRUE], obs))

\* 1052-1073
influxdb_Data ==
  /\ op = "dataQuery" /\ pc = "await_influx"
  /\ \E resp \in influxdb_Answers : Apply(influxdb_OnResponse(loc, Seen(obs, resp), resp))

\* 1068 -> 1040
influxdb_Wake ==
  /\ op = "dataQuery" /\ pc = "await_sleep"
  /\ Apply(influxdb_While(loc, obs))

(***************************************************************************)
(* DataAccess.getLoadEntities                                              *)
(***************************************************************************)
\* the k-th entity the server lists has id k and name EntName(k)
EntId(k) == k

EntName(k) == 100 + k

getLoadEntities_Args ==
  [clusters : {NotGiven, Given(<<>>), Given(<<1>>), Given(<<102, 7>>)}]

getLoadEntities_Locals ==
  [site |-> "getLoadEntities", pageCount |-> 1, hasMore |-> TRUE, pageSize |-> 5,
   retry |-> 0, result |-> <<>>]

\* 1113
getLoadEntities_Invalid(clusters) == clusters.given /\ Len(clusters.list) = 0

\* 1174
getLoadEntities_MayRetry(retry) == retry < MAX_RETRIES

\* 1175
getLoadEntities_sleepTime(retry) == IF retry > 5 THEN RETRY_DELAY[2] ELSE RETRY_DELAY[1]

\* the variant of 1142-1145 that asks for the first page every time
getLoadEntities_Request_FirstPage(l) ==
  [kind |-> "entities", page |-> 1, pageSize |-> l.pageSize]

\* 1142-1145
getLoadEntities_Request(l) ==
  [kind |-> "entities", page |-> l.pageCount, pageSize |-> l.pageSize]

Includes(list, x) == \E j \in 1..Len(list) : list[j] = x

\* the variant of 1186-1192 that matches names only
getLoadEntities_Filter_ByName(clusters, result) ==
  IF clusters.given
  THEN SelectSeq(result, LAMBDA e : Includes(clusters.list, EntName(e)))
  ELSE result

\* 1186-1192
getLoadEntities_Filter(clusters, result) ==
  IF clusters.given
  THEN SelectSeq(result, LAMBDA e : Includes(clusters.list, EntName(e))
                                      \/ Includes(clusters.list, EntId(e)))
  ELSE result

\* 1140: while (hasMore)
getLoadEntities_While(l, o) ==
  IF l.hasMore THEN ToAwait("await_entities", l, getLoadEntities_Request(l), o)
  ELSE ToReturn(Rows(getLoadEntities_Filter(args.clusters, l.result), FALSE), l, o)

\* 1148-1155: axios rejects, the body carries a truthy error, or (1158) its data
\* cannot be spread
getLoadEntities_Rejected(resp) == resp.kind = "neterr" \/ resp.flag \/ ~resp.hasData

\* 1145-1182
getLoadEntities_OnResponse(l, o, resp) ==
  IF getLoadEntities_Rejected(resp)
  THEN LET l2 == [l EXCEPT !.retry = @ + 1]
           o2 == ObsFail(o)
       IN IF getLoadEntities_MayRetry(l2.retry)
          THEN ToSleep(l2, o2, getLoadEntities_sleepTime(l2.retry))
          ELSE ToThrow("MaxRetries", l2, o2)
  ELSE LET r == l.result \o Tokens(o.served, resp.n)
       IN getLoadEntities_While([l EXCEPT !.result = r, !.hasMore = Len(r) < resp.total,
                                          !.pageCount = @ + 1],
                                ObsPage(o, resp.n))

\* the answers to the request for page pageNo of a listing when have items are
\* held: from page MaxListPages on the server reports a total that is reached
ListingAnswers(pageNo, have) ==
  {NetErr, Flagged, Listing(FALSE, 0, 0)}
    \cup {r \in {Listing(TRUE, d, t) :
                   d \in {k \in 0..MaxPageLen : obs.served + k <= MaxData},
                   t \in 0..(MaxData + 1)} :
            pageNo < MaxListPages \/ r.total <= have + r.n}

\* 1111-1145
getLoadEntities_Call ==
  /\ op = "getLoadEntities" /\ pc = "call"
  /\ IF getLoadEntities_Invalid(args.clusters)
     THEN Apply(ToThrow("Validation", getLoadEntities_Locals, obs))
     ELSE Apply(getLoadEntities_While(getLoadEntities_Locals, NewLoop(0)))

\* 1145-1203
getLoadEntities_Data ==
  /\ op = "getLoadEntities" /\ pc = "await_entities"
  /\ \E resp \in ListingAnswers(loc.pageCount, Len(loc.result)) :
       Apply(getLoadEntities_OnResponse(loc, Seen(obs, resp), resp))

\* 1176 -> 1140
getLoadEntities_Wake ==
  /\ op = "getLoadEntities" /\ pc = "await_sleep"
  /\ Apply(getLoadEntities_While(loc, obs))

(***************************************************************************)
(* EventsHandler                                                           *)
(***************************************************************************)
\* EventsHandler.isoUtcTime: undefined is now, an invalid date throws
isoUtcTime(time) ==
  IF time.kind = "null" THEN Value(NowMs)
  ELSE IF time.val = Undef THEN Thrown ELSE Value(time.val)

EventTimes == {TimeNull, TimeStr(TimeA), TimeStr(TimeB), TimeStr(Undef)}

\* the event categories the server holds
CatA == [id |-> "t1", name |-> "a"]

CatB == [id |-> "t2", name |-> "b"]

\* getEventCategories: [] on any failure, else the list
CategoryAnswers == {<<>>, <<CatA>>, <<CatA, CatB>>}

\* a single-shot PUT/GET/POST: axios rejects, the body has no data, or data of d items
ShotAnswers == {NetErr, Listing(FALSE, 0, 0)} \cup {Listing(TRUE, d, d) : d \in 0..MaxPageLen}

\* 283-287, 329-333, 367-371: the body's data, or a thrown Error
Shot_OnResponse(l, o, resp) ==
  IF resp.kind = "neterr" THEN ToThrow("Request", l, ObsFail(o))
  ELSE IF ~resp.hasData THEN ToThrow("InvalidResponse", l, ObsFail(o))
  ELSE ToReturn(Rows(Tokens(o.served, resp.n), FALSE), l, ObsPage(o, resp.n))

(* getEventCategories *)
getEventCategories_Args == [onPrem : {FALSE}]

\* 353-360
getEventCategories_Call ==
  /\ op = "getEventCategories" /\ pc = "call"
  /\ Apply(ToAwait("await_shot", [site |-> op, retry |-> 0], [kind |-> "categories"], obs))

(* getEventsInTimeslot *)
getEventsInTimeslot_Args == [startTime : EventTimes, endTime : EventTimes]

\* 257-276
getEventsInTimeslot_Call ==
  /\ op = "getEventsInTimeslot" /\ pc = "call"
  /\ LET s == isoUtcTime(args.startTime)
         e == isoUtcTime(args.endTime)
         l == [site |-> op, retry |-> 0]
     IN IF ~s.ok \/ ~e.ok THEN Apply(ToThrow("Validation", l, obs))
        ELSE IF Less(e.val, s.val) THEN Apply(ToThrow("Validation", l, obs))
        ELSE Apply(ToAwait("await_shot", l,
                           [kind |-> "events", startTime |-> s.val, endTime |-> e.val], obs))

(* getEventDataCount *)
getEventDataCount_Args == [count : {10, 10000, 10001}, endTime : EventTimes]

\* the variant of 307-322 without the test of count
getEventDataCount_Call_Uncounted ==
  /\ op = "getEventDataCount" /\ pc = "call"
  /\ LET e == isoUtcTime(args.endTime)
         l == [site |-> op, retry |-> 0]
     IN IF ~e.ok THEN Apply(ToThrow("Validation", l, obs))
        ELSE Apply(ToAwait("await_shot", l,
                           [kind |-> "events", startTime |-> Undef, endTime |-> e.val], obs))

\* 307-322
getEventDataCount_Call ==
  /\ op = "getEventDataCount" /\ pc = "call"
  /\ LET e == isoUtcTime(args.endTime)
         l == [site |-> op, retry |-> 0]
     IN IF args.count > 10000 THEN Apply(ToThrow("Validation", l, obs))
        ELSE IF ~e.ok THEN Apply(ToThrow("Validation", l, obs))
        ELSE Apply(ToAwait("await_shot", l,
                           [kind |-> "events", startTime |-> Undef, endTime |-> e.val], obs))

\* 276-297, 322-343, 360-381
Shot_Data ==
  /\ op \in {"getEventCategories", "getEventsInTimeslot", "getEventDataCount"}
  /\ pc = "await_shot"
  /\ \E resp \in ShotAnswers : Apply(Shot_OnResponse(loc, Seen(obs, resp), resp))

(* getDetailedEvent *)
getDetailedEvent_Args ==
  [startTime : {TimeNull, TimeStr(TimeA), TimeStr(Undef)},
   endTime : {TimeNull, TimeStr(Undef)},
   eventTagsList : {NotGiven, Given(<<>>), Given(<<"t1">>)}]

getDetailedEvent_Locals ==
  [site |-> "getDetailedEvent", tags |-> <<>>, page |-> 1, retry |-> 0, rawData |-> <<>>]

\* 421
getDetailedEvent_Request(l) ==
  [kind |-> "events", page |-> l.page, pageSize |-> 1000, eventTags |-> l.tags]

\* 431: responseData.success === false; a rejected request throws as well
getDetailedEvent_Rejected(resp) == resp.kind = "neterr" \/ resp.flag

\* the variant of 440 that compares with >
getDetailedEvent_Break_Strict(rawData, total) == Len(rawData) > total

\* 440: rawData.length >= (totalCount || 0)
getDetailedEvent_Break(rawData, total) == Len(rawData) >= total

\* 421-445: no retry: a failed page ends the call in the outer catch
getDetailedEvent_OnResponse(l, o, resp) ==
  IF getDetailedEvent_Rejected(resp)
  THEN ToThrow(IF resp.kind = "neterr" THEN "Request" ELSE "ServerError", l, ObsFail(o))
  ELSE LET r == l.rawData \o Tokens(o.served, resp.n)
           l2 == [l EXCEPT !.rawData = r, !.page = @ + 1]
           o2 == ObsPage(o, resp.n)
       IN IF getDetailedEvent_Break(r, resp.total) THEN ToReturn(Rows(r, FALSE), l2, o2)
          ELSE ToAwait("await_events", l2, getDetailedEvent_Request(l2), o2)

\* 399-421
getDetailedEvent_Start(l, o) ==
  ToAwait("await_events", l, getDetailedEvent_Request(l), NewLoop(o.served))

Ids(cats) == [j \in 1..Len(cats) |-> cats[j].id]

\* 391-403
getDetailedEvent_Call ==
  /\ op = "getDetailedEvent" /\ pc = "call"
  /\ LET s == isoUtcTime(args.startTime)
         e == isoUtcTime(args.endTime)
         l == getDetailedEvent_Locals
     IN IF ~s.ok \/ ~e.ok THEN Apply(ToThrow("Validation", l, obs))
        ELSE IF ~args.eventTagsList.given
        THEN Apply(ToAwait("await_categories", l, [kind |-> "categories"], obs))
        ELSE Apply(getDetailedEvent_Start([l EXCEPT !.tags = args.eventTagsList.list], obs))

\* 401-421
getDetailedEvent_Categories ==
  /\ op = "getDetailedEvent" /\ pc = "await_categories"
  /\ \E cats \in CategoryAnswers :
       Apply(getDetailedEvent_Start([loc EXCEPT !.tags = Ids(cats)], obs))

\* 421-455
getDetailedEvent_Data ==
  /\ op = "getDetailedEvent" /\ pc = "await_events"
  /\ \E resp \in ListingAnswers(loc.page, Len(loc.rawData)) :
       Apply(getDetailedEvent_OnResponse(loc, Seen(obs, resp), resp))

(* publishEvent *)
publishEvent_Args ==
  [eventNamesList : {NotGiven, Given(<<>>), Given(<<"a">>), Given(<<"b", "a">>),
                     Given(<<"a", "zz">>)},
   eventTagsList : {NotGiven, Given(<<>>), Given(<<"t9">>)}]

publishEvent_Locals ==
  [site |-> "publishEvent", categories |-> <<>>, tags |-> NotGiven, retry |-> 0]

\* 201: categories.find(item => item.name === tagName)
Matches(cats, name) == {j \in 1..Len(cats) : cats[j].name = name}

Find(cats, name) == cats[CHOOSE j \in Matches(cats, name) : \A k \in Matches(cats, name) : j <= k]

\* 200-206: the ids of the categories named, in the order of the names
publishEvent_Tags(cats, names) == [j \in 1..Len(names) |-> Find(cats, names[j]).id]

\* the variant of 210 without the length test
publishEvent_NoTags_MissingOnly(tags) == ~tags.given

\* 210: the tag list is missing or empty
publishEvent_NoTags(tags) == ~tags.given \/ Len(tags.list) = 0

\* 210-226
publishEvent_Post(l, o) ==
  IF publishEvent_NoTags(l.tags) THEN ToThrow("NoTags", l, o)
  ELSE ToAwait("await_post", l, [kind |-> "post", eventTags |-> l.tags.list], o)

\* 178-197
publishEvent_Call ==
  /\ op = "publishEvent" /\ pc = "call"
  /\ LET l == [publishEvent_Locals EXCEPT !.tags = args.eventTagsList]
     IN IF args.eventNamesList.given /\ Len(args.eventNamesList.list) > 0
        THEN Apply(ToAwait("await_categories", l, [kind |-> "categories"], obs))
        ELSE Apply(publishEvent_Post(l, obs))

\* 197-226
publishEvent_Categories ==
  /\ op = "publishEvent" /\ pc = "await_categories"
  /\ \E cats \in CategoryAnswers :
       LET names == args.eventNamesList.list
       IN IF \E j \in 1..Len(names) : Matches(cats, names[j]) = {}
          THEN Apply(ToThrow("TagNotFound", [loc EXCEPT !.categories = cats], obs))
          ELSE Apply(publishEvent_Post(
                       [loc EXCEPT !.categories = cats,
                                   !.tags = Given(publishEvent_Tags(cats, names))], obs))

\* 226-248
publishEvent_Data ==
  /\ op = "publishEvent" /\ pc = "await_post"
  /\ \E resp \in ShotAnswers : Apply(Shot_OnResponse(loc, Seen(obs, resp), resp))

(***************************************************************************)
(* The invocation.                                                         *)
(***************************************************************************)
Ops ==
  {"getFirstDp", "getDp", "dataQuery", "getLoadEntities", "getDetailedEvent",
   "getEventsInTimeslot", "getEventDataCount", "getEventCategories", "publishEvent"}

\* the operations that return [] on every failure
QueryOps == Ops \ {"publishEvent"}

ArgsOf(o) ==
  CASE o = "getFirstDp" -> getFirstDp_Args
    [] o = "getDp" -> getDp_Args
    [] o = "dataQuery" -> dataQuery_Args
    [] o = "getLoadEntities" -> getLoadEntities_Args
    [] o = "getDetailedEvent" -> getDetailedEvent_Args
    [] o = "getEventsInTimeslot" -> getEventsInTimeslot_Args
    [] o = "getEventDataCount" -> getEventDataCount_Args
    [] o = "getEventCategories" -> getEventCategories_Args
    [] o = "publishEvent" -> publishEvent_Args

Init ==
  /\ op \in Ops
  /\ args \in ArgsOf(op)
  /\ pc = "call"
  /\ loc = [site |-> op, retry |-> 0]
  /\ inflight = NoReq
  /\ ret = NoRet
  /\ caught = "none"
  /\ obs = NewLoop(0)
  /\ net = [k \in ReqKinds |-> 0]
  /\ clean = NoClean
  /\ other = NoOther

Next ==
  \/ getFirstDp_Call
  \/ getFirstDp_Devices
  \/ getFirstDp_Metadata
  \/ getFirstDp_Data
  \/ dataQuery_Call
  \/ dataQuery_Devices
  \/ dataQuery_Metadata
  \/ influxdb_Metadata
  \/ influxdb_Data
  \/ influxdb_Wake
  \/ getDp_Call
  \/ getDp_Devices
  \/ getDp_Metadata
  \/ getDp_Data
  \/ getDp_Wake
  \/ getLoadEntities_Call
  \/ getLoadEntities_Data
  \/ getLoadEntities_Wake
  \/ getDetailedEvent_Call
  \/ getDetailedEvent_Categories
  \/ getDetailedEvent_Data
  \/ getEventsInTimeslot_Call
  \/ getEventDataCount_Call
  \/ getEventCategories_Call
  \/ Shot_Data
  \/ publishEvent_Call
  \/ publishEvent_Categories
  \/ publishEvent_Data

Spec == Init /\ [][Next]_vars

\* the calls whose times are given in milliseconds or not given, or are no
\* times, and whose sensors come from the metadata unless the list given is
\* empty: what a loop does next depends on the answers, not on the times asked
\* nor on where the sensor list came from
FairInit ==
  /\ Init
  /\ op = "getDp" => args.endTime # TimeNum(TimeSecs)
  /\ op = "dataQuery" =>
       /\ args.startTime # TimeNum(TimeSecs)
       /\ args.endTime \in {TimeNull, TimeNum(TimeA), TimeStr(Undef)}
  /\ op \in {"getDp", "dataQuery"} /\ args.sensorList.given => args.sensorList.list = <<>>

\* every await ends: the response arrives or the request is rejected, a sleep is
\* over when its timer fires
FairSpec == FairInit /\ [][Next]_vars /\ WF_vars(Next)

(***************************************************************************)
(* getCleanedTable as a function of its options.  A JavaScript value is a  *)
(* record of its type and content (numbers are integers here); an object   *)
(* is the sequence of its <<key, value>> properties in insertion order.    *)
(***************************************************************************)
JsUndefined == [t |-> "undefined", n |-> 0, s |-> ""]

JsNull == [t |-> "null", n |-> 0, s |-> ""]

JsNaN == [t |-> "NaN", n |-> 0, s |-> ""]

Num(n) == [t |-> "number", n |-> n, s |-> ""]

Str(s) == [t |-> "string", n |-> 0, s |-> s]

\* truthiness: if (v), v || d, v && w
ToBoolean(v) == (v.t = "number" /\ v.n # 0) \/ (v.t = "string" /\ v.s # "")

\* v || d
OrElse(v, d) == IF ToBoolean(v) THEN v ELSE d

\* the strings that parseFloat reads as a number, with the number read
Numerals ==
  ("0" :> 0) @@ ("1" :> 1) @@ ("2" :> 2) @@ ("10" :> 10) @@ ("20" :> 20) @@ ("100" :> 100)

\* parseFloat(v): the argument is converted to a string and parsed
parseFloat(v) ==
  IF v.t = "number" THEN v
  ELSE IF v.t = "string" /\ v.s \in DOMAIN Numerals THEN Num(Numerals[v.s])
  ELSE JsNaN

\* key in obj
Has(obj, k) == \E i \in 1..Len(obj) : obj[i][1] = k

\* obj[k]
Get(obj, k) ==
  IF Has(obj, k) THEN obj[CHOOSE i \in 1..Len(obj) : obj[i][1] = k][2] ELSE JsUndefined

\* obj[k] = v: an existing property keeps its place, a new one goes last
Put(obj, k, v) ==
  IF Has(obj, k) THEN [i \in 1..Len(obj) |-> IF obj[i][1] = k THEN <<k, v>> ELSE obj[i]]
  ELSE Append(obj, <<k, v>>)

\* delete obj[k]
Delete(obj, k) == SelectSeq(obj, LAMBDA p : p[1] # k)

\* metadata = null
NoMetadata == [present |-> FALSE, sensors |-> <<>>, params |-> <<>>]

\* metadata with its sensors (<<sensorId, sensorName>>) and its params
\* (<<sensorId, <<paramName, paramValue>>, ...>>)
Metadata(sensors, params) == [present |-> TRUE, sensors |-> sensors, params |-> params]

\* 367: JSON.parse(JSON.stringify(data)): undefined properties are dropped and NaN
\* becomes null
JsonCopy(data) ==
  [i \in 1..Len(data) |->
     LET kept == SelectSeq(data[i], LAMBDA p : p[2].t # "undefined")
     IN [j \in 1..Len(kept) |-> IF kept[j][2].t = "NaN" THEN <<kept[j][1], JsNull>> ELSE kept[j]]]

\* 370-376: the rows of the sensors asked for
getCleanedTable_Filter(sensorList, rows) ==
  IF sensorList.given /\ Len(sensorList.list) > 0
  THEN SelectSeq(rows, LAMBDA row :
         \E j \in 1..Len(sensorList.list) :
           Get(row, "sensor") = Str(sensorList.list[j]) \/ Get(row, "sensorId") = Str(sensorList.list[j]))
  ELSE rows

\* 379-382: the rows of the device; deviceId is "" when the caller passes false
getCleanedTable_Device(deviceId, rows) ==
  IF deviceId # "" THEN SelectSeq(rows, LAMBDA row : Get(row, "deviceId") = Str(deviceId))
  ELSE rows

\* 393-409: m, c, min and max as the loop over the sensor's parameters leaves them
RECURSIVE getCleanedTable_Params(_, _)
getCleanedTable_Params(acc, sensorParams) ==
  IF sensorParams = <<>> THEN acc
  ELSE LET param == Head(sensorParams)
           next == CASE param[1] = "m" -> [acc EXCEPT !.m = OrElse(parseFloat(param[2]), Num(1))]
                     [] param[1] = "c" -> [acc EXCEPT !.c = OrElse(parseFloat(param[2]), Num(0))]
                     [] param[1] = "min" -> [acc EXCEPT !.min = parseFloat(param[2])]
                     [] param[1] = "max" -> [acc EXCEPT !.max = parseFloat(param[2])]
                     [] OTHER -> acc
       IN getCleanedTable_Params(next, Tail(sensorParams))

Max(a, b) == IF a >= b THEN a ELSE b

Min(a, b) == IF a <= b THEN a ELSE b

\* an item of a parameter list that is null
NullItem == <<>>

\* 389-400: for (const param of sensorParams) reads param.paramName: a TypeError
\* when an item of the list is null
getCleanedTable_CalibrateThrows(metadata, row) ==
  LET sensor == Get(row, "sensor")
  IN /\ ToBoolean(sensor) /\ Has(metadata.params, sensor.s)
     /\ \E j \in 1..Len(Get(metadata.params, sensor.s)) :
          Get(metadata.params, sensor.s)[j] = NullItem

\* the variant of 388-430 without the isNaN test of 414
getCleanedTable_Calibrate_Unparsed(metadata, row) ==
  LET sensor == Get(row, "sensor")
      value == Get(row, "value")
  IN IF ~(ToBoolean(sensor) /\ Has(metadata.params, sensor.s)) THEN row
     ELSE LET p == getCleanedTable_Params(
                     [m |-> Num(1), c |-> Num(0), min |-> JsNull, max |-> JsNull],
                     Get(metadata.params, sensor.s))
              rawValue == parseFloat(value)
              linear == p.m.n * rawValue.n + p.c.n
              raised == IF p.min.t = "number" THEN Max(linear, p.min.n) ELSE linear
              lowered == IF p.max.t = "number" THEN Min(raised, p.max.n) ELSE raised
          IN IF value.t \in {"null", "undefined"} THEN row
             ELSE IF rawValue.t = "NaN" THEN Put(row, "value", JsNaN)
             ELSE Put(row, "value", Num(lowered))

\* 388-430: one row calibrated
getCleanedTable_Calibrate(metadata, row) ==
  LET sensor == Get(row, "sensor")
      value == Get(row, "value")
  IN IF ~(ToBoolean(sensor) /\ Has(metadata.params, sensor.s)) THEN row
     ELSE LET p == getCleanedTable_Params(
                     [m |-> Num(1), c |-> Num(0), min |-> JsNull, max |-> JsNull],
                     Get(metadata.params, sensor.s))
              rawValue == parseFloat(value)
              linear == p.m.n * rawValue.n + p.c.n
              raised == IF p.min.t = "number" THEN Max(linear, p.min.n) ELSE linear
              lowered == IF p.max.t = "number" THEN Min(raised, p.max.n) ELSE raised
          IN IF value.t \in {"null", "undefined"} \/ rawValue.t = "NaN" THEN row
             ELSE Put(row, "value", Num(lowered))

\* the decimal digits of a non-negative integer, and the integer of its digits
RECURSIVE Digits(_)
Digits(n) == IF n < 10 THEN <<n>> ELSE Append(Digits(n \div 10), n % 10)

RECURSIVE FromDigits(_)
FromDigits(x) ==
  IF x = <<>> THEN 0 ELSE 10 * FromDigits(SubSeq(x, 1, Len(x) - 1)) + x[Len(x)]

\* a row's time field as an argument of timeToUnix; the strings of the rows
\* modelled are not dates
AsTime(v) == IF v.t = "number" THEN TimeNum(Digits(v.n)) ELSE TimeStr(Undef)

\* 434-444: timestamp, or else time, converted by timeToUnix, whose error
\* leaves getCleanedTable
getCleanedTable_Unix(rows) ==
  LET field(row) == IF ToBoolean(Get(row, "timestamp")) THEN "timestamp"
                    ELSE IF ToBoolean(Get(row, "time")) THEN "time" ELSE ""
      unix(row) == timeToUnix(AsTime(Get(row, field(row))))
  IN IF \E i \in 1..Len(rows) : field(rows[i]) # "" /\ ~unix(rows[i]).ok
     THEN [ok |-> FALSE, rows |-> <<>>]
     ELSE [ok |-> TRUE,
           rows |-> [i \in 1..Len(rows) |->
                       IF field(rows[i]) = "" THEN rows[i]
                       ELSE Put(rows[i], field(rows[i]), Num(FromDigits(unix(rows[i]).val)))]]

\* 449-454: aliasMap[sensor.sensorId] = sensor.sensorName for each sensor in turn
RECURSIVE getCleanedTable_AliasMap(_, _)
getCleanedTable_AliasMap(aliasMap, sensors) ==
  IF sensors = <<>> THEN aliasMap
  ELSE getCleanedTable_AliasMap(
         Put(aliasMap, Head(sensors)[1], Str(Head(sensors)[2])), Tail(sensors))

\* 467-472: Object.keys(row).forEach from the i-th key on: a key that has an
\* alias is written under the alias, then the key is deleted
RECURSIVE getCleanedTable_AliasKeys(_, _, _, _)
getCleanedTable_AliasKeys(newRow, row, aliasMap, i) ==
  IF i > Len(row) THEN newRow
  ELSE LET key == row[i][1]
           name == Get(aliasMap, key)
       IN getCleanedTable_AliasKeys(
            IF key \notin {"sensor", "time", "timestamp"} /\ ToBoolean(name)
            THEN Delete(Put(newRow, name.s, row[i][2]), key)
            ELSE newRow,
            row, aliasMap, i + 1)

\* 458-474: one row aliased
getCleanedTable_Alias(aliasMap, row) ==
  LET sensor == Get(row, "sensor")
      name == IF ToBoolean(sensor) THEN Get(aliasMap, sensor.s) ELSE JsUndefined
  IN getCleanedTable_AliasKeys(
       IF ToBoolean(name) THEN Put(row, "sensor", name) ELSE row, row, aliasMap, 1)

\* 482, 486: row.timestamp || row.time
getCleanedTable_Key(row) == OrElse(Get(row, "timestamp"), Get(row, "time"))

\* 482: [...new Set(xs)]: the first occurrence of each value, in order
RECURSIVE Distinct(_)
Distinct(xs) ==
  IF xs = <<>> THEN <<>>
  ELSE LET init == Distinct(SubSeq(xs, 1, Len(xs) - 1))
           last == xs[Len(xs)]
       IN IF \E j \in 1..Len(init) : init[j] = last THEN init ELSE Append(init, last)

\* a variant of getCleanedTable_PivotRow that keeps the first value of a sensor
RECURSIVE getCleanedTable_PivotRow_FirstWins(_, _)
getCleanedTable_PivotRow_FirstWins(pivotedRow, rowsAtTimestamp) ==
  IF rowsAtTimestamp = <<>> THEN pivotedRow
  ELSE LET row == Head(rowsAtTimestamp)
           sensor == Get(row, "sensor")
       IN getCleanedTable_PivotRow_FirstWins(
            IF ToBoolean(sensor) /\ Get(row, "value").t # "undefined" /\ ~Has(pivotedRow, sensor.s)
            THEN Put(pivotedRow, sensor.s, Get(row, "value"))
            ELSE pivotedRow,
            Tail(rowsAtTimestamp))

\* 490-496: rowsAtTimestamp.forEach: pivotedRow[row.sensor] = row.value
RECURSIVE getCleanedTable_PivotRow(_, _)
getCleanedTable_PivotRow(pivotedRow, rowsAtTimestamp) ==
  IF rowsAtTimestamp = <<>> THEN pivotedRow
  ELSE LET row == Head(rowsAtTimestamp)
           sensor == Get(row, "sensor")
       IN getCleanedTable_PivotRow(
            IF ToBoolean(sensor) /\ Get(row, "value").t # "undefined"
            THEN Put(pivotedRow, sensor.s, Get(row, "value"))
            ELSE pivotedRow,
            Tail(rowsAtTimestamp))

\* 478-501: one pivoted row per distinct timestamp
getCleanedTable_Pivot(rows) ==
  LET timestamps == Distinct([i \in 1..Len(rows) |-> getCleanedTable_Key(rows[i])])
  IN [i \in 1..Len(timestamps) |->
        getCleanedTable_PivotRow(
          <<<<"timestamp", timestamps[i]>>>>,
          SelectSeq(rows, LAMBDA row : getCleanedTable_Key(row) = timestamps[i]))]

\* the variant of getCleanedTable that renames the sensors before it calibrates
getCleanedTable_AliasFirst(o) ==
  LET copied == JsonCopy(o.data)
      filtered == getCleanedTable_Device(o.deviceId, getCleanedTable_Filter(o.sensorList, copied))
      aliasMap == getCleanedTable_AliasMap(<<>>, o.metadata.sensors)
      aliased ==
        IF getCleanedTable_Aliases(o.alias, o.metadata.present)
        THEN [i \in 1..Len(filtered) |-> getCleanedTable_Alias(aliasMap, filtered[i])]
        ELSE filtered
      calibrated ==
        IF getCleanedTable_Calibrates(o.cal, o.metadata.present)
        THEN [i \in 1..Len(aliased) |-> getCleanedTable_Calibrate(o.metadata, aliased[i])]
        ELSE aliased
      unixed == IF o.unix THEN getCleanedTable_Unix(calibrated)
                ELSE [ok |-> TRUE, rows |-> calibrated]
  IN IF /\ getCleanedTable_Calibrates(o.cal, o.metadata.present)
        /\ \E i \in 1..Len(aliased) : getCleanedTable_CalibrateThrows(o.metadata, aliased[i])
     THEN [ok |-> FALSE, rows |-> <<>>]
     ELSE IF ~unixed.ok THEN unixed
     ELSE [ok |-> TRUE,
           rows |-> IF o.pivotTable THEN getCleanedTable_Pivot(unixed.rows) ELSE unixed.rows]

\* DataAccess.getCleanedTable: the table, or the error of timeToUnix or of the
\* calibration
getCleanedTable(o) ==
  LET copied == JsonCopy(o.data)
      filtered == getCleanedTable_Device(o.deviceId, getCleanedTable_Filter(o.sensorList, copied))
      calibrated ==
        IF getCleanedTable_Calibrates(o.cal, o.metadata.present)
        THEN [i \in 1..Len(filtered) |-> getCleanedTable_Calibrate(o.metadata, filtered[i])]
        ELSE filtered
      unixed == IF o.unix THEN getCleanedTable_Unix(calibrated)
                ELSE [ok |-> TRUE, rows |-> calibrated]
      aliasMap == getCleanedTable_AliasMap(<<>>, o.metadata.sensors)
      aliased ==
        IF getCleanedTable_Aliases(o.alias, o.metadata.present)
        THEN [i \in 1..Len(unixed.rows) |-> getCleanedTable_Alias(aliasMap, unixed.rows[i])]
        ELSE unixed.rows
  IN IF /\ getCleanedTable_Calibrates(o.cal, o.metadata.present)
        /\ \E i \in 1..Len(filtered) : getCleanedTable_CalibrateThrows(o.metadata, filtered[i])
     THEN [ok |-> FALSE, rows |-> <<>>]
     ELSE IF ~unixed.ok THEN unixed
     ELSE [ok |-> TRUE, rows |-> IF o.pivotTable THEN getCleanedTable_Pivot(aliased) ELSE aliased]

(***************************************************************************)
(* DataAccess.formatSensorData.  data is null, an array or an object; of   *)
(* an object only Object.values is read: data is modelled as the sequence  *)
(* of its values, each an array of points (arr) or one point.              *)
(***************************************************************************)
\* data || {} for data = null
NoData == <<>>

\* a value of data that is an array of points
PointArray(points) == [arr |-> TRUE, items |-> points]

\* a value of data that is one point
OnePoint(point) == [arr |-> FALSE, items |-> <<point>>]

\* 335, 340-344: { time: time || '', sensor: sensor || '', value: value || null }
formatSensorData_Record(point) ==
  <<<<"time", OrElse(Get(point, "time"), Str(""))>>,
    <<"sensor", OrElse(Get(point, "sensor"), Str(""))>>,
    <<"value", OrElse(Get(point, "value"), JsNull)>>>>

\* 338: sensorData?.time && sensorData?.sensor
formatSensorData_Single(point) ==
  ToBoolean(Get(point, "time")) /\ ToBoolean(Get(point, "sensor"))

\* 333-346: what one value of data adds to result
formatSensorData_Value(sensorData) ==
  IF sensorData.arr
  THEN [i \in 1..Len(sensorData.items) |-> formatSensorData_Record(sensorData.items[i])]
  ELSE IF formatSensorData_Single(sensorData.items[1])
       THEN <<formatSensorData_Record(sensorData.items[1])>>
       ELSE <<>>

\* 331-347: the values of data in turn
RECURSIVE formatSensorData(_)
formatSensorData(data) ==
  IF data = <<>> THEN <<>>
  ELSE formatSensorData_Value(Head(data)) \o formatSensorData(Tail(data))

(***************************************************************************)
(* The inputs the functions are applied to.                                *)
(***************************************************************************)
Options(data, metadata, cal, alias, unix, pivotTable) ==
  [data |-> data, alias |-> alias, cal |-> cal, deviceId |-> "", sensorList |-> NotGiven,
   unix |-> unix, metadata |-> metadata, pivotTable |-> pivotTable]

\* a parameter of a sensor, or none when the value is undefined
Param(name, v) == IF v = JsUndefined THEN <<>> ELSE <<<<name, v>>>>

\* one record of sensor S1 and the calibration parameters of S1
CalInputs ==
  {Options(<<<<<<"time", Num(100)>>, <<"sensor", Str("S1")>>, <<"value", v>>>>>>,
           Metadata(<<>>, <<<<"S1", Param("m", m) \o Param("c", c) \o Param("min", lo) \o Param("max", hi)>>>>),
           cal, FALSE, FALSE, FALSE) :
     v \in {Num(10), Num(60), Num(0 - 10), Str("10"), Str("abc"), JsNull},
     m \in {JsUndefined, Str("2"), Str("0")},
     c \in {JsUndefined, Str("1"), Str("0")},
     lo \in {JsUndefined, Str("0")},
     hi \in {JsUndefined, Str("100")},
     cal \in BOOLEAN}

\* a pivoted row and a long row, and the names of S1 and S2
AliasInputs ==
  {Options(<<row>>, Metadata(<<<<"S1", n1>>, <<"S2", n2>>>>, <<>>), FALSE, TRUE, FALSE, FALSE) :
     row \in {<<<<"timestamp", Num(100)>>, <<"S1", Num(5)>>, <<"S2", Num(7)>>>>,
              <<<<"time", Num(100)>>, <<"sensor", Str("S1")>>, <<"value", Num(5)>>>>},
     n1 \in {"Temp", "S1", "S2", ""},
     n2 \in {"Hum", "S2", "S1", "Temp"}}

\* rows in one table
MaxRows == 2

LongRows ==
  {Param("timestamp", ts) \o <<<<"time", Num(t)>>, <<"sensor", Str(s)>>, <<"value", Num(v)>>>> :
     ts \in {JsUndefined, Num(0), Num(300)}, t \in {100, 200}, s \in {"A", "B"}, v \in {5, 7}}

PivotInputs ==
  {Options(data, NoMetadata, FALSE, FALSE, unix, TRUE) :
     data \in UNION {[1..k -> LongRows] : k \in 0..MaxRows}, unix \in BOOLEAN}

\* 10^21 and 1234567 * 10^15: integers that String() writes in exponent form
Sextillion == <<1>> \o [i \in 1..21 |-> 0]

ManyDigits == <<1, 2, 3, 4, 5, 6, 7>> \o [i \in 1..15 |-> 0]

\* 10000000000: the least integer of 11 digits
ElevenDigits == <<1>> \o [i \in 1..10 |-> 0]

timeToUnix_Inputs ==
  TimeInputs \cup
  {TimeNeg(TimeA), TimeNum(ElevenDigits), TimeNum(Sextillion), TimeNum(ManyDigits),
   TimeStr(TimeSecs), TimeStr(TimeB), TimeDate(TimeA), TimeDate(TimeB), TimeDate(TimeSecs),
   TimeDate(Zero), TimeDate(Undef)}

\* records of the sensors A and B that are aliased and then pivoted, and the
\* names of A and B
NamedRows ==
  {<<<<"time", Num(t)>>, <<"sensor", Str(s)>>, <<"value", Num(v)>>>> :
     t \in {100, 200}, s \in {"A", "B"}, v \in {5, 7}}

AliasPivotInputs ==
  {Options(data, Metadata(<<<<"A", nA>>, <<"B", nB>>>>, <<>>), FALSE, TRUE, FALSE, TRUE) :
     data \in UNION {[1..k -> NamedRows] : k \in 0..MaxRows},
     nA \in {"Temp", "B", ""},
     nB \in {"Hum", "Temp"}}

\* points with or without a time, a sensor and a value
RawPoints ==
  {Param("time", t) \o Param("sensor", sn) \o Param("value", v) :
     t \in {JsUndefined, Num(100)}, sn \in {JsUndefined, Str("A")},
     v \in {JsUndefined, Num(5), Num(0)}}

RawArrays == {PointArray(ps) : ps \in UNION {[1..k -> RawPoints] : k \in 0..MaxRows}}

\* null, a map with one sensor (its points or its point), a flat array of
\* points, and a map with two sensors
formatSensorData_Inputs ==
  {NoData}
    \cup {<<a>> : a \in RawArrays}
    \cup {<<OnePoint(q)>> : q \in RawPoints}
    \cup {[i \in 1..Len(a.items) |-> OnePoint(a.items[i])] : a \in RawArrays}
    \cup {<<x, y>> : x, y \in {PointArray(<<q>>) : q \in RawPoints}
                               \cup {OnePoint(q) : q \in RawPoints}}

\* records of S1, which has parameters, and of S2, which has none
SomeRows ==
  {<<<<"time", Num(100)>>, <<"sensor", Str(sn)>>, <<"value", v>>, <<"unit", Str("C")>>>> :
     sn \in {"S1", "S2"}, v \in {Num(10), Str("10"), Str("abc"), JsNull}}

SomeParams ==
  {Metadata(<<>>, <<>>),
   Metadata(<<>>, <<<<"S1", <<<<"m", Str("2")>>, <<"c", Str("1")>>>>>>>>)}

CalFrameInputs ==
  {Options(data, metadata, TRUE, FALSE, FALSE, FALSE) :
     data \in UNION {[1..k -> SomeRows] : k \in 0..MaxRows}, metadata \in SomeParams}

\* one record of S1 and parameter lists of S1 with items that cannot be used
MalformedInputs ==
  {Options(<<<<<<"time", Num(100)>>, <<"sensor", Str("S1")>>, <<"value", Num(10)>>>>>>,
           Metadata(<<>>, <<<<"S1", entry>>>>), TRUE, FALSE, FALSE, FALSE) :
     entry \in {<<NullItem>>, <<<<"m", Str("2")>>, NullItem>>, <<<<"m", Str("abc")>>>>,
                <<<<"m", JsNull>>, <<"min", Str("abc")>>>>, <<<<"x", Str("2")>>>>, <<>>}}

\* records of S1 and S2 that are filtered, calibrated and renamed: S1 has
\* parameters, and the names are new ones or the ids exchanged
StagedRows ==
  {<<<<"time", Num(t)>>, <<"sensor", Str(sn)>>, <<"value", Num(10)>>>> :
     t \in {100, 200}, sn \in {"S1", "S2"}}

StageInputs ==
  {[Options(data,
            Metadata(<<<<"S1", names[1]>>, <<"S2", names[2]>>>>,
                     <<<<"S1", <<<<"m", Str("2")>>, <<"c", Str("1")>>>>>>>>),
            TRUE, TRUE, FALSE, pivotTable)
      EXCEPT !.sensorList = sensorList] :
     data \in UNION {[1..k -> StagedRows] : k \in 0..MaxRows},
     names \in {<<"Temp", "Hum">>, <<"S2", "S1">>},
     sensorList \in {NotGiven, Given(<<"S1">>)},
     pivotTable \in BOOLEAN}

\* records with a time that timeToUnix rejects (a number of at most 10 digits, a
\* string that is no date) or without a time, with unix and without
UnixInputs ==
  {Options(data, NoMetadata, FALSE, FALSE, unix, FALSE) :
     data \in UNION {[1..k -> {Param("time", t) \o <<<<"sensor", Str("A")>>, <<"value", Num(5)>>>> :
                                t \in {JsUndefined, Num(0), Num(100), Str("abc")}}] :
                       k \in 0..MaxRows},
     unix \in BOOLEAN}

getCleanedTable_Inputs == UnixInputs \cup StageInputs \cup MalformedInputs \cup CalFrameInputs \cup CalInputs \cup AliasInputs \cup PivotInputs \cup AliasPivotInputs

(***************************************************************************)
(* The functions applied to their inputs.                                  *)
(***************************************************************************)
PureInit ==
  /\ op \in {"timeToUnix", "getCleanedTable", "formatSensorData"}
  /\ args \in CASE op = "timeToUnix" -> timeToUnix_Inputs
               [] op = "getCleanedTable" -> getCleanedTable_Inputs
               [] op = "formatSensorData" -> formatSensorData_Inputs
  /\ pc = "call"
  /\ loc = [site |-> op, retry |-> 0]
  /\ inflight = NoReq
  /\ ret = NoRet
  /\ caught = "none"
  /\ obs = NewLoop(0)
  /\ net = [k \in ReqKinds |-> 0]
  /\ clean = NoClean
  /\ other = NoOther

timeToUnix_Apply ==
  /\ op = "timeToUnix"
  /\ pc = "call"
  /\ pc' = "done"
  /\ ret' = timeToUnix(args)
  /\ UNCHANGED <<op, args, loc, inflight, caught, obs, net, clean, other>>

getCleanedTable_Apply ==
  /\ op = "getCleanedTable"
  /\ pc = "call"
  /\ pc' = "done"
  /\ ret' = getCleanedTable(args)
  /\ clean' = [called |-> TRUE, cal |-> args.cal, alias |-> args.alias,
               metadata |-> args.metadata.present, pivotTable |-> args.pivotTable]
  /\ UNCHANGED <<op, args, loc, inflight, caught, obs, net, other>>

formatSensorData_Apply ==
  /\ op = "formatSensorData"
  /\ pc = "call"
  /\ pc' = "done"
  /\ ret' = [ok |-> TRUE, rows |-> formatSensorData(args)]
  /\ UNCHANGED <<op, args, loc, inflight, caught, obs, net, clean, other>>

PureNext ==
  \/ timeToUnix_Apply
  \/ getCleanedTable_Apply
  \/ formatSensorData_Apply

PureSpec == PureInit /\ [][PureNext]_vars

(***************************************************************************)
(* Two invocations on one DataAccess instance.  The parameters and the     *)
(* let-declared variables of an async method belong to the call: while the *)
(* call is suspended at an await they are kept for it, and another call    *)
(* may run up to its next await.                                           *)
(***************************************************************************)
\* the invocation that is running
Invocation ==
  [op |-> op, args |-> args, pc |-> pc, loc |-> loc, inflight |-> inflight, ret |-> ret,
   caught |-> caught, obs |-> obs, net |-> net, clean |-> clean]

\* an invocation that has not been called yet
Called(o, a) ==
  [op |-> o, args |-> a, pc |-> "call", loc |-> [site |-> o, retry |-> 0],
   inflight |-> NoReq, ret |-> NoRet, caught |-> "none", obs |-> NewLoop(0),
   net |-> [k \in ReqKinds |-> 0], clean |-> NoClean]

\* a variant of Resume in which retry is a field of the instance
Resume_SharedRetry(s) == [s EXCEPT !.loc = [@ EXCEPT !.retry = loc.retry]]

\* 1121-1127, 843-846: what a suspended invocation finds when it is resumed:
\* its own pageCount, hasMore, retry, result, cursor and allData
Resume(s) == s

\* the running invocation is suspended at its await and the other one runs on
Switch ==
  /\ other.op # "none"
  /\ LET s == Resume(other)
     IN /\ op' = s.op /\ args' = s.args /\ pc' = s.pc /\ loc' = s.loc
        /\ inflight' = s.inflight /\ ret' = s.ret /\ caught' = s.caught
        /\ obs' = s.obs /\ net' = s.net /\ clean' = s.clean
  /\ other' = Invocation

\* getLoadEntities() and a getFirstDp call on the same instance
PairInit ==
  /\ op = "getLoadEntities"
  /\ args = [clusters |-> NotGiven]
  /\ pc = "call"
  /\ loc = [site |-> op, retry |-> 0]
  /\ inflight = NoReq
  /\ ret = NoRet
  /\ caught = "none"
  /\ obs = NewLoop(0)
  /\ net = [k \in ReqKinds |-> 0]
  /\ clean = NoClean
  /\ other \in {Called("getFirstDp", [n |-> 1, startTime |-> TimeNull, sensorList |-> l]) :
                  l \in {NotGiven, Given(<<"s1">>)}}

PairNext ==
  \/ getLoadEntities_Call
  \/ getLoadEntities_Data
  \/ getLoadEntities_Wake
  \/ getFirstDp_Call
  \/ getFirstDp_Devices
  \/ getFirstDp_Metadata
  \/ getFirstDp_Data
  \/ Switch

PairSpec == PairInit /\ [][PairNext]_vars

(***************************************************************************)
(* Properties.                                                             *)
(***************************************************************************)
\* the operations whose fetch loop retries, and the budget of the loop
RetryOps == {"getDp", "dataQuery", "getLoadEntities"}

Budget == IF op = "dataQuery" THEN MAX_RETRIES_INFLUX ELSE MAX_RETRIES

\* the invocation is suspended at a request of its fetch loop
AwaitsPage == pc \in {"await_dp", "await_influx", "await_entities", "await_events"}

\* a cursor that closes a getDp walk / an _influxdb walk
ClosedEnd(c) == c.tag # "obj" \/ ~Truthy(c.end)

ClosedRange(c) == c.tag # "obj" \/ ~Truthy(c.start) \/ ~Truthy(c.end)

\* C1: in a retrying fetch loop (a per-sensor walk of getDp, getLoadEntities:
\* budget 15; _influxdb: budget 8) the failed requests never exceed the budget;
\* once the budget-th request has failed nothing is requested or slept on any
\* more, the operation has ended on the max-retries error; and that error takes
\* exactly budget failures, so a loop of which every request failed (no page
\* was accepted) has issued exactly budget requests.
C1_RetryBudget ==
  op \in RetryOps =>
    /\ obs.fails <= Budget
    /\ obs.fails = Budget => pc = "done" /\ caught = "MaxRetries" /\ inflight = NoReq
    /\ caught = "MaxRetries" => obs.fails = Budget /\ loc.retry = Budget

\* C1: the second sensor's walk of a getDp call used up its own budget of 15
\* without one accepted page
C1_Exhausted ==
  /\ op = "getDp" /\ pc = "done" /\ caught = "MaxRetries"
  /\ loc.i = 2 /\ obs.pages = 0 /\ obs.fails = MAX_RETRIES

C3_ClosedCursorEndsWalk ==
  op = "getDp" /\ obs.last = "ok" /\ obs.lastCur.tag \in {"null", "undef"} =>
    /\ caught # "TypeError"
    /\ pc = "done" /\ caught # "CleanError" /\ obs.served > 0 =>
         ret = Rows(Tokens(0, obs.served), TRUE)

\* C4: in a run of successful pages of _influxdb all records of the pages are
\* held in page order; while the latest page's cursor has a start and an end
\* exactly one more request is out and it carries that start and that end; when
\* it is falsy no request follows: the call has ended, returning the records.
C4_RangedWalk ==
  op = "dataQuery" /\ loc.site = "_influxdb" /\ obs.last = "ok" /\ obs.fails = 0 =>
    /\ loc.allData = Tokens(0, obs.served)
    /\ IF ClosedRange(obs.lastCur)
       THEN pc = "done" /\ inflight = NoReq /\ (caught = "none" => ret.rows = loc.allData)
       ELSE /\ pc = "await_influx"
            /\ inflight.sTime = obs.lastCur.start
            /\ inflight.eTime = obs.lastCur.end

\* C4: three pages, the third with a falsy cursor, gave the two records in order
C4_ThreePages ==
  /\ op = "dataQuery" /\ pc = "done" /\ caught = "none" /\ obs.fails = 0
  /\ obs.pages = 3 /\ ClosedRange(obs.lastCur) /\ ret.rows = <<1, 2>>

\* C5 as stated: every fetch loop ends, whatever the server answers.
C5_Terminates == <>(pc = "done")

\* how a fetch loop that has ended came to its end
C5_ExitCause ==
  pc = "done" /\ obs.last # "none" =>
    CASE op = "getDp" ->
           \/ obs.last = "ok" /\ ClosedEnd(obs.lastCur)
           \/ obs.last # "ok" /\ obs.fails = MAX_RETRIES
      [] op = "dataQuery" ->
           \/ obs.last = "ok" /\ ClosedRange(obs.lastCur)
           \/ obs.last # "ok" /\ obs.fails = MAX_RETRIES_INFLUX
      [] op = "getLoadEntities" ->
           \/ obs.last = "ok" /\ Len(loc.result) >= obs.total
           \/ obs.last # "ok" /\ obs.fails = MAX_RETRIES
      [] op = "getDetailedEvent" ->
           \/ obs.last \in {"ok", "malformed"} /\ Len(loc.rawData) >= obs.total
           \/ obs.last \in {"neterr", "flag"} /\ obs.fails = 1
      [] OTHER -> TRUE

\* C5 as the code has it: a fetch loop ends only on a falsy cursor, on the count
\* reaching the reported total, on the retry budget being used up or, in
\* getDetailedEvent, on the first failed request; and it does end unless the
\* server goes on for ever answering with pages that leave it open.
C5_EndsUnlessPagesKeepComing ==
  /\ [](C5_ExitCause)
  /\ (<>(pc = "done") \/ []<>(AwaitsPage /\ obs.last = "ok"))

\* C5: getDetailedEvent stopped at the second page, when it held the reported total
C5_TotalReached ==
  /\ op = "getDetailedEvent" /\ pc = "done" /\ caught = "none"
  /\ obs.pages = 2 /\ obs.total = 2 /\ Len(loc.rawData) = 2

publishEvent_Failure ==
  LET names == args.eventNamesList.list
      named == args.eventNamesList.given /\ Len(names) > 0
  IN \/ named /\ \E j \in 1..Len(names) :
                   \A k \in 1..Len(loc.categories) : loc.categories[k].name # names[j]
     \/ ~named /\ (~args.eventTagsList.given \/ Len(args.eventTagsList.list) = 0)
     \/ obs.last \in {"neterr", "malformed"}

\* C8: publishEvent, once ended, has raised if anything failed, and has returned
\* a value only when nothing did.
C8_PublishPropagates ==
  op = "publishEvent" /\ pc = "done" =>
    /\ caught # "none" \/ publishEvent_Failure => ret = Raise
    /\ ret.kind = "value" => caught = "none" /\ ~publishEvent_Failure /\ obs.last = "ok"

\* C8: the POST was answered without data and publishEvent raised
C8_NoDataRaised ==
  /\ op = "publishEvent" /\ pc = "done" /\ obs.last = "malformed"
  /\ net["post"] = 1 /\ ret = Raise

\* C9: getLoadEntities with an explicit empty clusters list raises and asks the
\* server nothing.
C9_EmptyClustersRaise ==
  op = "getLoadEntities" /\ args.clusters.given /\ Len(args.clusters.list) = 0
    /\ pc = "done" =>
    ret = Raise /\ net["entities"] = 0

\* a time that is no time: an unparsable string, a number of seconds
BadTime(t) ==
  \/ t.kind = "str" /\ t.val = Undef
  \/ t.kind = "num" /\ Len(t.val) <= 10

InstantOf(t) == IF t.kind = "null" THEN NowMs ELSE t.val

InvalidInput ==
  CASE op = "getFirstDp" -> args.n < 1 \/ BadTime(args.startTime)
    [] op = "getDp" -> args.n < 1 \/ BadTime(args.endTime)
    [] op = "dataQuery" ->
         \/ BadTime(args.startTime)
         \/ BadTime(args.endTime)
         \/ Less(InstantOf(args.endTime), InstantOf(args.startTime))
    [] OTHER -> FALSE

\* C10: getFirstDp, getDp and dataQuery called with invalid input issue no
\* device-list, metadata or sensor-data request.
C10_RejectedBeforeAnyRequest ==
  InvalidInput => net["devices"] = 0 /\ net["metadata"] = 0 /\ net["data"] = 0

\* C11: getLoadEntities asks for page (number of pages accepted so far) + 1 with
\* page size 5, so for pages 1, 2, 3, ... in order, the page number advancing
\* exactly on an accepted page; it holds the records of the accepted pages in
\* page order; and after an accepted page it has stopped asking as soon as it
\* holds at least the totalCount of that page, and asks on otherwise.
C11_PagesInOrder ==
  op = "getLoadEntities" /\ pc # "call" /\ caught # "Validation" =>
    /\ loc.pageCount = obs.pages + 1
    /\ loc.result = Tokens(0, obs.served)
    /\ pc = "await_entities" =>
         inflight = [kind |-> "entities", page |-> obs.pages + 1, pageSize |-> 5]
    /\ obs.last = "ok" =>
         IF Len(loc.result) >= obs.total THEN pc = "done" /\ inflight = NoReq
         ELSE pc = "await_entities"

\* C11: three pages were accepted, with a failed request in between, and the
\* two entities they held were kept in order
C11_ThirdPage ==
  /\ op = "getLoadEntities" /\ pc = "done" /\ caught = "none"
  /\ obs.pages = 3 /\ obs.fails > 0 /\ loc.result = <<1, 2>> /\ obs.total = 2

\* the members of a clusters list
Members(list) == {list[j] : j \in 1..Len(list)}

\* C12: getLoadEntities that ends without an error returns, for a clusters
\* list, the fetched entities whose name or id is in the list, in fetch order,
\* and without a clusters list all fetched entities.
C12_ClusterFilter ==
  op = "getLoadEntities" /\ pc = "done" /\ caught = "none" =>
    LET fetched == Tokens(0, obs.served)
        wanted == Members(args.clusters.list)
    IN ret.rows =
         IF args.clusters.given
         THEN SelectSeq(fetched, LAMBDA e : EntName(e) \in wanted \/ EntId(e) \in wanted)
         ELSE fetched

\* C12: of two fetched entities the one whose id is in clusters was returned
C12_MatchedById ==
  /\ op = "getLoadEntities" /\ pc = "done" /\ caught = "none"
  /\ args.clusters = Given(<<1>>) /\ obs.served = 2 /\ ret.rows = <<1>>

\* C13: when getFirstDp, getDp or dataQuery has called getCleanedTable with
\* cal = true, calibration is applied, and with alias = true, the aliases are.
C13_CalAndAliasApplied ==
  clean.called =>
    /\ clean.cal => getCleanedTable_Calibrates(clean.cal, clean.metadata)
    /\ clean.alias => getCleanedTable_Aliases(clean.alias, clean.metadata)

\* C14: calibration gives slope * raw + intercept (slope 1 and intercept 0 when
\* not given), raised to min and then lowered to max where these are given, for
\* every record whose sensor has parameters and whose value parses as a number,
\* whatever the slope and the intercept are, 0 included.
C14_Calibration ==
  op = "getCleanedTable" /\ pc = "done" /\ ret.ok /\ args.cal /\ args.metadata.present =>
    \A i \in 1..Len(args.data) :
      LET row == args.data[i]
          sensor == Get(row, "sensor")
          raw == parseFloat(Get(row, "value"))
          params == Get(args.metadata.params, sensor.s)
          given(name, d) == IF Has(params, name) THEN parseFloat(Get(params, name)).n ELSE d
          linear == given("m", 1) * raw.n + given("c", 0)
          raised == IF Has(params, "min") THEN Max(linear, given("min", 0)) ELSE linear
          lowered == IF Has(params, "max") THEN Min(raised, given("max", 0)) ELSE raised
      IN Has(args.metadata.params, sensor.s) /\ raw.t = "number" =>
           Get(ret.rows[i], "value") = Num(lowered)

\* the table out has one row per distinct key of rows, in first-seen order of
\* the keys, with the key as its timestamp, and no column but timestamp and the
\* sensors of the records at its key
PivotedBy(key(_), rows, out) ==
  /\ \A i \in 1..Len(rows) : \E j \in 1..Len(out) : Get(out[j], "timestamp") = key(rows[i])
  /\ \A j \in 1..Len(out) :
       /\ \E i \in 1..Len(rows) : Get(out[j], "timestamp") = key(rows[i])
       /\ \A p \in 1..Len(out[j]) :
            \/ out[j][p][1] = "timestamp"
            \/ \E i \in 1..Len(rows) :
                 key(rows[i]) = Get(out[j], "timestamp") /\ Get(rows[i], "sensor") = Str(out[j][p][1])
  /\ \A j1, j2 \in 1..Len(out) :
       j1 < j2 =>
         /\ Get(out[j1], "timestamp") # Get(out[j2], "timestamp")
         /\ \E i1 \in 1..Len(rows) :
              /\ key(rows[i1]) = Get(out[j1], "timestamp")
              /\ \A i2 \in 1..i1 : key(rows[i2]) # Get(out[j2], "timestamp")

\* the timestamp field if present, else time
KeyIfPresent(row) == IF Has(row, "timestamp") THEN Get(row, "timestamp") ELSE Get(row, "time")

\* the timestamp field if present and truthy, else time
KeyIfTruthy(row) ==
  IF ToBoolean(Get(row, "timestamp")) THEN Get(row, "timestamp") ELSE Get(row, "time")

\* a call of getCleanedTable that only pivots has returned
Pivoted ==
  /\ op = "getCleanedTable" /\ pc = "done"
  /\ args.pivotTable /\ ~args.unix /\ ~args.cal /\ ~args.alias

\* C15: the pivot has one row per distinct grouping key (timestamp if present,
\* else time), in first-seen order, with the key as its timestamp, and the row
\* maps the sensor of every record at that key to the record's value.
C15_Pivot ==
  Pivoted =>
    /\ PivotedBy(KeyIfPresent, args.data, ret.rows)
    /\ \A j \in 1..Len(ret.rows), i \in 1..Len(args.data) :
         KeyIfPresent(args.data[i]) = Get(ret.rows[j], "timestamp") =>
           Get(ret.rows[j], Get(args.data[i], "sensor").s) = Get(args.data[i], "value")

\* C15, amended: the pivot has one row per distinct grouping key (timestamp if
\* it is truthy, else time), in first-seen order, with the key as its
\* timestamp, and the row maps each sensor that has a record at that key to the
\* value of the last such record.
C15_PivotLastWins ==
  Pivoted =>
    /\ PivotedBy(KeyIfTruthy, args.data, ret.rows)
    /\ \A j \in 1..Len(ret.rows), i \in 1..Len(args.data) :
         /\ KeyIfTruthy(args.data[i]) = Get(ret.rows[j], "timestamp")
         /\ \A i2 \in (i + 1)..Len(args.data) :
              KeyIfTruthy(args.data[i2]) = Get(ret.rows[j], "timestamp") =>
                Get(args.data[i2], "sensor") # Get(args.data[i], "sensor")
         => Get(ret.rows[j], Get(args.data[i], "sensor").s) = Get(args.data[i], "value")

\* two records of sensor A at time 100, pivoted to one row that holds the second
C15_SameSensorTwice ==
  /\ Pivoted
  /\ Len(args.data) = 2
  /\ \A i \in 1..2 : Get(args.data[i], "sensor") = Str("A") /\ KeyIfTruthy(args.data[i]) = Num(100)
  /\ Get(args.data[1], "value") = Num(5) /\ Get(args.data[2], "value") = Num(7)
  /\ ret.rows = <<<<<<"timestamp", Num(100)>>, <<"A", Num(7)>>>>>>

\* the key that the aliases of the metadata put key k under
AliasOf(sensors, k) ==
  IF k \notin {"sensor", "time", "timestamp"} /\ Has(sensors, k) /\ Get(sensors, k) # ""
  THEN Get(sensors, k) ELSE k

\* C16: aliasing gives a long row the name of its sensor and moves the value
\* under a sensor-id key of a wide row to the name, each value being present
\* exactly once afterwards, whatever the names are (a name equal to its own id
\* or to another key of the row included), as long as no two keys get one name.
C16_AliasKeepsValues ==
  /\ op = "getCleanedTable" /\ pc = "done"
  /\ args.alias /\ args.metadata.present /\ ~args.pivotTable /\ ~args.unix /\ ~args.cal
  => \A i \in 1..Len(args.data) :
       LET row == args.data[i]
           newRow == ret.rows[i]
           sensors == args.metadata.sensors
           sensor == Get(row, "sensor")
       IN (\A p, q \in 1..Len(row) :
             p # q => AliasOf(sensors, row[p][1]) # AliasOf(sensors, row[q][1]))
          => /\ Len(newRow) = Len(row)
             /\ \A p \in 1..Len(row) :
                  Get(newRow, AliasOf(sensors, row[p][1])) =
                    IF row[p][1] = "sensor" /\ Has(sensors, sensor.s) /\ Get(sensors, sensor.s) # ""
                    THEN Str(Get(sensors, sensor.s)) ELSE row[p][2]

\* the inputs that give the instant of the argument as a number, a string or a Date
SameInstant ==
  {t \in timeToUnix_Inputs :
     t.kind \in {"num", "str", "date"} /\ args.kind \in {"num", "str", "date"}
       /\ t.val = args.val /\ t.val # Undef}

C18_AtMostNPoints ==
  op = "getDp" /\ pc \in {"await_dp", "await_sleep", "done"} /\ caught # "Validation" =>
    /\ Len(loc.allData) - obs.base <= args.n
    /\ pc = "await_dp" => Len(loc.allData) - obs.base < args.n

\* C19: the n given to getFirstDp limits the points requested and returned: the
\* request carries n, and at most n points per requested sensor are returned.
C19_FirstDpLimitedByN ==
  op = "getFirstDp" =>
    /\ pc = "await_first" => inflight.lim = args.n
    /\ pc = "done" /\ ret.cleaned => Len(ret.rows) <= args.n * Len(loc.sensors)

\* C20: a failed request of a fetch loop changes nothing of the fetch state but
\* the retry counter (cursor or page number and the records collected stay as
\* they were), and the request issued after the wait is the one that failed.
C20_FailureKeepsState ==
  [][/\ op \in RetryOps /\ AwaitsPage /\ obs'.fails = obs.fails + 1
        => loc' = [loc EXCEPT !.retry = @ + 1]
     /\ op \in RetryOps /\ pc = "await_sleep"
        => loc' = loc /\ inflight' = obs.req /\ AwaitsPage']_vars

\* a request of getDp that follows two records and a failure is in flight again
C20_AskedAgainWithRecords ==
  /\ op = "getDp" /\ pc = "await_dp"
  /\ obs.last \in {"neterr", "flag"} /\ obs.fails > 0
  /\ inflight = obs.req
  /\ Len(loc.allData) = 2

\* the short delay of the operation's fetch loop
ShortDelay == IF op = "dataQuery" THEN RETRY_DELAY_INFLUX[1] ELSE RETRY_DELAY[1]

\* C21: the backoff tier follows the consecutive failures: a failure that
\* follows a successful page, or that is among the first 5 of the loop, is
\* waited for with the short delay.
C21_TierOfConsecutiveFailures ==
  [][(op \in RetryOps /\ AwaitsPage /\ obs'.fails = obs.fails + 1 /\ pc' = "await_sleep")
       => (obs.last \in {"none", "ok"} \/ obs.fails < 5 => inflight'.ms = ShortDelay)]_vars

\* C22: the delays handed to the sleep are 2000 and 4000 ms in getDp and
\* getLoadEntities and 2000 and 10000 ms in _influxdb.
C22_DelaysInMilliseconds ==
  op \in RetryOps /\ pc = "await_sleep" =>
    inflight.ms \in IF op = "dataQuery" THEN {2000, 10000} ELSE {2000, 4000}

\* C23: the retry count of a fetch loop counts the failed requests of that loop
\* alone: every loop (each sensor's walk of getDp, _influxdb, getLoadEntities)
\* starts at 0, whatever failed in an earlier walk of the invocation.
C23_RetryLocalToLoop ==
  op \in RetryOps /\ (AwaitsPage \/ pc = "await_sleep") =>
    /\ loc.retry = obs.fails
    /\ obs.last = "none" => loc.retry = 0

\* the walk of the second sensor starts at 0 after the walk of the first
C23_SecondWalkStartsFresh ==
  /\ op = "getDp" /\ pc = "await_dp"
  /\ loc.i = 2 /\ obs.base = 1
  /\ obs.last = "none" /\ loc.retry = 0

\* getDp is inside its loop over the sensors
InWalk == op = "getDp" /\ pc \in {"await_dp", "await_sleep"}

\* C24: getDp walks the sensors one after another in list order: the one request
\* in flight is for the sensor of the current walk, a walk that has been left is
\* never taken up again, and the records collected are those of the earlier
\* sensors followed by the pages of the current one, in the order of arrival.
C24_SensorsInOrder ==
  [][/\ InWalk' /\ pc' = "await_dp" =>
          inflight'.kind = "data" /\ inflight'.sensor = loc'.sensors[loc'.i]
     /\ InWalk /\ InWalk' =>
          /\ \E k \in 0..MaxData : loc'.allData = loc.allData \o Tokens(Len(loc.allData), k)
          /\ \/ loc'.i = loc.i /\ obs'.base = obs.base
             \/ loc'.i = loc.i + 1 /\ obs'.base = Len(loc'.allData)]_vars

\* the walk of s2 is on, after one record of s1 and with one record of s2
C24_SecondSensorAfterFirst ==
  /\ InWalk /\ pc = "await_dp"
  /\ loc.i = 2 /\ inflight.sensor = "s2"
  /\ obs.base = 1 /\ loc.allData = <<1, 2>>

\* what holds of an invocation s that runs alone: getLoadEntities has failed
\* as often as its retry count says, holds the pages served to it and asks for
\* the page after them; getFirstDp returns the records served to it
Alone(s) ==
  /\ s.op = "getLoadEntities" /\ s.pc # "call" =>
       /\ s.loc.retry = s.obs.fails
       /\ s.loc.result = Tokens(0, s.obs.served)
       /\ s.loc.pageCount = s.obs.pages + 1
       /\ s.caught = "MaxRetries" <=> s.obs.fails = MAX_RETRIES
  /\ s.op = "getFirstDp" /\ s.pc # "call" =>
       /\ s.loc.retry = 0
       /\ s.pc = "done" /\ s.ret.cleaned => s.ret.rows = Tokens(0, s.obs.served)

InPages == op = "getDetailedEvent" /\ (pc = "await_events" \/ obs.req.kind = "events")

\* C26: getDetailedEvent asks again for a page whose request failed, and gives
\* up only when the request has failed more than once.
C26_EventPageRetried ==
  InPages /\ obs.last \in {"neterr", "flag"} =>
    /\ obs.fails > 1 \/ pc \in {"await_events", "await_sleep"}
    /\ pc = "await_events" => inflight = obs.req

\* C27: getDetailedEvent asks for the pages 1, 2, 3, ... in order with page size
\* 1000, stops at the first response at which the events held are at least
\* the totalCount reported, and returns the pages' events in order, as they came.
C27_EventPagesInOrder ==
  InPages /\ caught = "none" =>
    /\ loc.page = obs.pages + 1
    /\ loc.rawData = Tokens(0, obs.served)
    /\ pc = "await_events" =>
         inflight = [kind |-> "events", page |-> obs.pages + 1, pageSize |-> 1000,
                     eventTags |-> loc.tags]
    /\ obs.last \in {"ok", "malformed"} =>
         IF obs.served >= obs.total
         THEN pc = "done" /\ ret = Rows(Tokens(0, obs.served), FALSE)
         ELSE pc = "await_events"
    /\ pc = "done" => obs.served >= obs.total

\* two pages of one event each were asked for and returned
C27_TwoPages ==
  /\ InPages /\ pc = "done" /\ caught = "none"
  /\ obs.pages = 2 /\ obs.total = 2
  /\ ret = Rows(<<1, 2>>, FALSE)

\* the operations that verify the device before they fetch
DeviceOps == {"getFirstDp", "getDp", "dataQuery"}

\* what the invocation holds of the device list ("none" before the answer)
DevicesSeen == IF pc = "call" THEN "none" ELSE loc.devices

NamedIn(req) == IF op = "getDp" THEN <<req.sensor>> ELSE req.sensor

\* C29: in getFirstDp, getDp and dataQuery every sensor-data request names at
\* least one sensor: with an empty resolved sensor list the call fails and no
\* sensor-data request is issued.
C29_RequestNamesSensor ==
  op \in DeviceOps /\ inflight.kind = "data" =>
    Len(loc.sensors) > 0 /\ Len(NamedIn(inflight)) > 0

\* the part of C29 that getDp and dataQuery keep: their requests name a sensor
C29_WalksNameSensor ==
  op \in {"getDp", "dataQuery"} /\ inflight.kind = "data" =>
    Len(loc.sensors) > 0 /\ Len(NamedIn(inflight)) > 0

\* a call of getCleanedTable that pivots, with aliases or without, has returned
PivotedAny ==
  /\ op = "getCleanedTable" /\ pc = "done"
  /\ args.pivotTable /\ ~args.unix /\ ~args.cal

\* the sensors that have a record at the key of the pivoted row out
Reporting(out) ==
  {Get(args.data[i], "sensor").s :
     i \in {k \in 1..Len(args.data) : KeyIfTruthy(args.data[k]) = Get(out, "timestamp")}}

\* the columns of the pivoted row out
Columns(out) == {out[p][1] : p \in 1..Len(out)} \ {"timestamp"}

\* the column of sensor s: its name when aliases are substituted and it has one
ColumnOf(s) ==
  LET name == Get(getCleanedTable_AliasMap(<<>>, args.metadata.sensors), s)
  IN IF getCleanedTable_Aliases(args.alias, args.metadata.present) /\ ToBoolean(name)
     THEN name.s ELSE s

\* C30: in every pivoted row the sensor columns are exactly the sensors that
\* have a record at the row's timestamp: no key for a sensor without a record,
\* and distinct reporting sensors give distinct columns, with aliases or without.
C30_ColumnsAreReportingSensors ==
  PivotedAny =>
    \A j \in 1..Len(ret.rows) :
      /\ Columns(ret.rows[j]) = {ColumnOf(s) : s \in Reporting(ret.rows[j])}
      /\ Cardinality(Columns(ret.rows[j])) = Cardinality(Reporting(ret.rows[j]))

\* the part of C30 that holds: without aliases the columns are the reporting
\* sensors themselves
C30_ColumnsWithoutAlias ==
  PivotedAny /\ ~args.alias =>
    \A j \in 1..Len(ret.rows) : Columns(ret.rows[j]) = Reporting(ret.rows[j])

\* the part of C30 that holds with aliases: the columns are the names of the
\* reporting sensors
C30_ColumnsAreNames ==
  PivotedAny =>
    \A j \in 1..Len(ret.rows) :
      Columns(ret.rows[j]) = {ColumnOf(s) : s \in Reporting(ret.rows[j])}

\* the point objects of data, in the order of discovery
RECURSIVE PointsOf(_)
PointsOf(data) == IF data = <<>> THEN <<>> ELSE Head(data).items \o PointsOf(Tail(data))

\* the field of a point, or d when the field is missing (or, for the value, falsy)
FieldOr(point, k, d) ==
  IF Has(point, k) /\ (k # "value" \/ ToBoolean(Get(point, k))) THEN Get(point, k) ELSE d

\* C31: formatSensorData yields one record per input point object, for the
\* three shapes of input, in the order of discovery; a missing time or sensor
\* becomes the empty string and a missing or falsy value becomes null.
C31_OneRecordPerPoint ==
  op = "formatSensorData" /\ pc = "done" =>
    ret.rows = [i \in 1..Len(PointsOf(args)) |->
                  <<<<"time", FieldOr(PointsOf(args)[i], "time", Str(""))>>,
                    <<"sensor", FieldOr(PointsOf(args)[i], "sensor", Str(""))>>,
                    <<"value", FieldOr(PointsOf(args)[i], "value", JsNull)>>>>]

\* the part of C31 that holds: the points that sit in arrays
C31_ArraysOnly ==
  op = "formatSensorData" /\ pc = "done" /\ (\A i \in 1..Len(args) : args[i].arr) =>
    ret.rows = [i \in 1..Len(PointsOf(args)) |->
                  <<<<"time", FieldOr(PointsOf(args)[i], "time", Str(""))>>,
                    <<"sensor", FieldOr(PointsOf(args)[i], "sensor", Str(""))>>,
                    <<"value", FieldOr(PointsOf(args)[i], "value", JsNull)>>>>]

\* a call of getCleanedTable that only calibrates has returned
Calibrated ==
  /\ op = "getCleanedTable" /\ pc = "done" /\ ret.ok
  /\ args.cal /\ args.metadata.present /\ ~args.unix /\ ~args.alias /\ ~args.pivotTable

\* what the call returns without calibration
Uncalibrated == getCleanedTable([args EXCEPT !.cal = FALSE]).rows

\* C32: calibration leaves a record as it is when its sensor has no entry in
\* metadata.params, or when its value is null or does not parse as a number;
\* it changes no field but value, and it adds and removes no record.
C32_CalibrationFrame ==
  Calibrated =>
    /\ Len(ret.rows) = Len(Uncalibrated)
    /\ \A i \in 1..Len(ret.rows) :
         LET row == Uncalibrated[i]
             value == Get(row, "value")
         IN /\ \/ ret.rows[i] = row
               \/ Has(row, "value") /\ ret.rows[i] = Put(row, "value", Get(ret.rows[i], "value"))
            /\ \/ ~Has(args.metadata.params, Get(row, "sensor").s)
               \/ value.t = "null"
               \/ parseFloat(value).t = "NaN"
               => ret.rows[i] = row

\* of two records the one of S1 is calibrated; the one of S2, which has no
\* parameters, and a value that is no number are left as they are
C32_OneOfTwoCalibrated ==
  /\ Calibrated /\ Len(ret.rows) = 2
  /\ Get(args.data[1], "sensor") = Str("S2") /\ ret.rows[1] = args.data[1]
  /\ Get(args.data[2], "sensor") = Str("S1") /\ Get(args.data[2], "value") = Num(10)
  /\ ret.rows[2] = Put(args.data[2], "value", Num(21))
  /\ \E o \in getCleanedTable_Inputs :
       /\ o.cal /\ Len(o.data) = 1 /\ Get(o.data[1], "value") = Str("abc")
       /\ Has(o.metadata.params, "S1") /\ getCleanedTable(o).rows = o.data

\* C33: calibration never raises: getCleanedTable with cal = true completes
\* for every record set and every metadata value, parameter lists whose items
\* are no {paramName, paramValue} objects and values that are no numbers included.
C33_CalibrationNeverRaises ==
  op = "getCleanedTable" /\ pc = "done" /\ args.cal /\ ~args.unix => ret.ok

\* the part of C33 that holds: parameter values that are no numbers are not used
C33_UnusableValuesSkipped ==
  /\ op = "getCleanedTable" /\ pc = "done" /\ args.cal /\ ~args.unix
  /\ \A i \in 1..Len(args.metadata.params) :
       \A j \in 1..Len(args.metadata.params[i][2]) :
         args.metadata.params[i][2][j] # NullItem
  => ret.ok

\* a call of getCleanedTable that calibrates and renames has returned
Staged ==
  /\ op = "getCleanedTable" /\ pc = "done" /\ ret.ok
  /\ args.cal /\ args.alias /\ args.metadata.present /\ ~args.unix

\* the records of the sensors asked for, under their sensor ids
Kept ==
  SelectSeq(args.data, LAMBDA row :
    ~args.sensorList.given \/ args.sensorList.list = <<>>
      \/ \E j \in 1..Len(args.sensorList.list) : Get(row, "sensor") = Str(args.sensorList.list[j]))

\* the value of a record calibrated with the parameters of its sensor id
CalibratedValue(row) == Get(getCleanedTable_Calibrate(args.metadata, row), "value")

\* C34: the stages run in the order sensor filter, calibration, alias, pivot:
\* with cal and alias a record is filtered and calibrated under its sensor id
\* and then renamed, so the value under an alias is the sensor's calibrated value.
C34_StagesInOrder ==
  Staged =>
    IF ~args.pivotTable
    THEN /\ Len(ret.rows) = Len(Kept)
         /\ \A i \in 1..Len(Kept) :
              /\ Get(ret.rows[i], "sensor") = Str(ColumnOf(Get(Kept[i], "sensor").s))
              /\ Get(ret.rows[i], "value") = CalibratedValue(Kept[i])
              /\ Get(ret.rows[i], "time") = Get(Kept[i], "time")
    ELSE /\ \A i \in 1..Len(Kept) :
              \E j \in 1..Len(ret.rows) :
                /\ Get(ret.rows[j], "timestamp") = Get(Kept[i], "time")
                /\ \/ \E i2 \in (i + 1)..Len(Kept) :
                        /\ Get(Kept[i2], "time") = Get(Kept[i], "time")
                        /\ Get(Kept[i2], "sensor") = Get(Kept[i], "sensor")
                   \/ Get(ret.rows[j], ColumnOf(Get(Kept[i], "sensor").s)) = CalibratedValue(Kept[i])
         /\ \A j \in 1..Len(ret.rows) :
              Columns(ret.rows[j]) =
                {ColumnOf(Get(Kept[i], "sensor").s) :
                   i \in {k \in 1..Len(Kept) : Get(Kept[k], "time") = Get(ret.rows[j], "timestamp")}}

\* S1 is named S2 and S2 is named S1: the record of S1 comes back under the
\* name S2 with the value calibrated by the parameters of S1
C34_CalibratedThenRenamed ==
  /\ Staged /\ ~args.pivotTable /\ ~args.sensorList.given
  /\ Len(args.data) = 2
  /\ Get(args.data[1], "sensor") = Str("S1") /\ Get(args.data[2], "sensor") = Str("S2")
  /\ Get(ret.rows[1], "sensor") = Str("S2") /\ Get(ret.rows[1], "value") = Num(21)
  /\ Get(ret.rows[2], "sensor") = Str("S1") /\ Get(ret.rows[2], "value") = Num(10)

\* C35: within one call of getFirstDp, getDp or dataQuery the device metadata
\* is fetched once and not refreshed: the call issues at most one metadata
\* request, and the metadata handed to the cleaning, which its calibration and
\* alias stages both consult, is the one that was fetched.
C35_MetadataFetchedOnce ==
  op \in DeviceOps =>
    /\ net.metadata <= 1
    /\ pc \notin {"call", "await_devices"} /\ loc.metadata => net.metadata = 1
    /\ clean.called =>
         /\ clean.metadata = loc.metadata
         /\ getCleanedTable_Calibrates(clean.cal, clean.metadata) = (clean.cal /\ loc.metadata)
         /\ getCleanedTable_Aliases(clean.alias, clean.metadata) = (clean.alias /\ loc.metadata)

\* dataQuery has fetched the metadata once and has cleaned its records with it
C35_CleanedWithFetched ==
  /\ op = "dataQuery" /\ pc = "done" /\ net.metadata = 1 /\ net.data = 2
  /\ clean.called /\ clean.metadata /\ clean.cal /\ clean.alias

\* publishEvent has the answer of getEventCategories, or did not ask for it
Resolved == op = "publishEvent" /\ pc \notin {"call", "await_categories"}

\* the names that publishEvent was given, <<>> when it was given none
NamesGiven == IF args.eventNamesList.given THEN args.eventNamesList.list ELSE <<>>

\* C36: publishEvent posts only a non-empty tag list: with a non-empty
\* eventNamesList the tags are the ids of the categories of those names, in the
\* order of the names, and eventTagsList is ignored; when a name matches no
\* category, or no tag results, nothing is posted.
C36_PostsOnlyTags ==
  Resolved =>
    /\ pc = "await_post" =>
         /\ inflight.kind = "post" /\ Len(inflight.eventTags) > 0
         /\ IF NamesGiven # <<>>
            THEN /\ Len(inflight.eventTags) = Len(NamesGiven)
                 /\ \A j \in 1..Len(NamesGiven) :
                      \E k \in 1..Len(loc.categories) :
                        /\ loc.categories[k].name = NamesGiven[j]
                        /\ loc.categories[k].id = inflight.eventTags[j]
            ELSE inflight.eventTags = args.eventTagsList.list
    /\ net.post > 0 => loc.tags.given /\ Len(loc.tags.list) > 0
    /\ \/ \E j \in 1..Len(NamesGiven) :
             \A k \in 1..Len(loc.categories) : loc.categories[k].name # NamesGiven[j]
       \/ NamesGiven = <<>> /\ (~args.eventTagsList.given \/ args.eventTagsList.list = <<>>)
       => net.post = 0 /\ pc = "done" /\ caught \in {"TagNotFound", "NoTags"}

\* the ids of the categories named b and a are posted, and not the tag given
C36_NamesResolved ==
  /\ Resolved /\ pc = "await_post"
  /\ args.eventNamesList = Given(<<"b", "a">>) /\ args.eventTagsList = Given(<<"t9">>)
  /\ Len(inflight.eventTags) = 2 /\ inflight.eventTags[1] # inflight.eventTags[2]
  /\ \A j \in 1..2 : inflight.eventTags[j] # "t9"

\* what the call returns with unix = false
WithoutUnix == getCleanedTable([args EXCEPT !.unix = FALSE])

\* the fields of a row other than its time
Untimed(row) == SelectSeq(row, LAMBDA p : p[1] \notin {"time", "timestamp"})

\* C37: with unix = true the cleaning changes only the time field of each row:
\* for every record set the rows returned have the count, the sensors and the
\* values of the rows returned with unix = false.
C37_UnixChangesOnlyTime ==
  op = "getCleanedTable" /\ pc = "done" /\ args.unix /\ WithoutUnix.ok =>
    /\ ret.ok
    /\ Len(ret.rows) = Len(WithoutUnix.rows)
    /\ \A i \in 1..Len(ret.rows) : Untimed(ret.rows[i]) = Untimed(WithoutUnix.rows[i])

\* the part of C37 that holds here: rows without a time come back as they are
C37_TimelessRowsKept ==
  /\ op = "getCleanedTable" /\ pc = "done" /\ args.unix /\ WithoutUnix.ok
  /\ \A i \in 1..Len(args.data) : ~ToBoolean(getCleanedTable_Key(args.data[i]))
  => ret = WithoutUnix

\* getEventsInTimeslot was called with an end before its start, or
\* getEventDataCount with a count above 10000
OutOfRange ==
  \/ /\ op = "getEventsInTimeslot"
     /\ ~BadTime(args.startTime) /\ ~BadTime(args.endTime)
     /\ Less(InstantOf(args.endTime), InstantOf(args.startTime))
  \/ op = "getEventDataCount" /\ args.count > 10000

\* C38: getEventsInTimeslot with an end time before its start time, and
\* getEventDataCount with a count above 10000, return the empty list and issue
\* no network request.
C38_OutOfRangeAsksNothing ==
  OutOfRange =>
    /\ \A k \in ReqKinds : net[k] = 0
    /\ inflight = NoReq
    /\ pc \in {"call", "done"}
    /\ pc = "done" => ret = Empty /\ caught = "Validation"

\* getEventDataCount with count 10001 and a good end time has returned
C38_CountRejected ==
  /\ op = "getEventDataCount" /\ args.count = 10001 /\ ~BadTime(args.endTime)
  /\ pc = "done" /\ ret = Empty /\ net["events"] = 0

\* getEventsInTimeslot with an end before its start has returned
C38_RangeRejected ==
  /\ op = "getEventsInTimeslot" /\ OutOfRange
  /\ pc = "done" /\ ret = Empty /\ net["events"] = 0

====
